---- MODULE Spec2Model ----
(***************************************************************************)
(* Prediction and scoring engine of hkjc-racing-analysis: the realtime     *)
(* six-dimension leg-fitness scorer, the secondary four-dimension          *)
(* calculator, the racecard scoring loop and the running-style prediction  *)
(* loop.                                                                   *)
(*                                                                         *)
(* Conventions.                                                            *)
(*  - A Python value of unreliable type is a record [t, v, s]: t is        *)
(*    "none", "int" or "str"; v the integer; s the text as a sequence of   *)
(*    one-character strings.                                               *)
(*  - A float score is a fixed-point integer in millionths (Unit = 1.0);   *)
(*    every division rounds down.  round(x, 3) is Round3, in thousandths.  *)
(*  - Non-ASCII characters of the source are written as ASCII stand-ins:   *)
(*    "g" = U+597D (good), "k" = U+5FEB (fast), "y" = U+9ECF (yielding),   *)
(*    "@" = U+5730 (the "ground" suffix stripped by the surface score),    *)
(*    "<" = U+77ED (short), "m" = U+99AC (horse), "t" = U+982D (head): the *)
(*    margin words of the winning-distance column.                         *)
(***************************************************************************)
EXTENDS Integers, Sequences, FiniteSets, TLC

VARIABLES
    profile,          \* the scoring profile in use: "realtime" or "secondary"
    raw,              \* clean_int_field: the raw field value handed in
    cleaned,          \* clean_int_field: what the call produced
    racing_history,   \* calculate_scores: the caller's history records
    race_info,        \* calculate_scores: the caller's race context
    draw_statistics,  \* calculate_scores: the caller's population statistic
    now,              \* the wall clock read by datetime.now()
    result,           \* outcome of the latest calculate_scores call
    previous,         \* outcome of the call before it, same arguments
    rival_history,    \* the same history with one finish turned into a placing
    stability,        \* stability score of racing_history, -1 before scoring
    rival_stability,  \* stability score of rival_history, -1 before scoring
    horse_metrics,    \* calc_leg_fitness_score: aggregated metrics
    draw_stats,       \* calc_leg_fitness_score: the draw's statistic
    fitness,          \* calc_leg_fitness_score: outcome of the latest call
    pc,               \* racecard page: "rest", "load", "score" or "done"
    selected_race_num,\* racecard page: the race selected
    draw_stats_dict,  \* racecard page: the statistic loaded for the race
    horses,           \* scoring loop: the field
    idx,              \* scoring loop: number of competitors gone through
    scored_horses,    \* scoring loop: [horse_name, scores] of the scored
    errors,           \* scoring loop: [horse, error] of the failed
    total_runners,    \* prediction loop: the confirmed field size
    race_horses_data, \* prediction loop: the field
    pidx,             \* prediction loop: number of competitors gone through
    predictions,      \* prediction loop: the classifications appended
    pred_errors,      \* prediction loop: its errors list (horse numbers)
    pace_predictions, \* pace predictor: the predictions handed in
    current_total,    \* pace predictor: the field size handed in
    diag              \* pace predictor: outcome of the fused diagnosis

vars == <<profile, raw, cleaned, racing_history, race_info, draw_statistics, now,
          result, previous, rival_history, stability, rival_stability,
          horse_metrics, draw_stats, fitness, pc, selected_race_num,
          draw_stats_dict, horses, idx,
          scored_horses, errors, total_runners, race_horses_data, pidx,
          predictions,
          pred_errors, pace_predictions, current_total, diag>>

(***************************************************************************)
(* Bounds of the model.                                                    *)
(***************************************************************************)
MaxTokLen == 3
MaxHist == 3
MaxField == 3
MaxClock == 1
MaxTail == 4
MaxRunners == 12
MaxRuns == 6

(***************************************************************************)
(* Python values and text.                                                 *)
(***************************************************************************)
PyNone == [t |-> "none", v |-> 0, s |-> <<>>]
PyInt(n) == [t |-> "int", v |-> n, s |-> <<>>]
PyStr(chars) == [t |-> "str", v |-> 0, s |-> chars]

Digits == {"0", "1", "2", "3", "4", "5", "6", "7", "8", "9"}

DigitVal(c) ==
    CASE c = "0" -> 0 [] c = "1" -> 1 [] c = "2" -> 2 [] c = "3" -> 3
      [] c = "4" -> 4 [] c = "5" -> 5 [] c = "6" -> 6 [] c = "7" -> 7
      [] c = "8" -> 8 [] c = "9" -> 9

\* str.lower() and str.upper(), on the letters the model's tokens use
Lower(s) ==
    LET LowerChar(c) ==
            CASE c = "D" -> "d" [] c = "H" -> "h" [] c = "W" -> "w" [] c = "V" -> "v"
              [] c = "R" -> "r" [] c = "S" -> "s" [] c = "Q" -> "q" [] c = "N" -> "n"
              [] c = "A" -> "a" [] c = "X" -> "x" [] c = "P" -> "p" [] c = "U" -> "u"
              [] c = "F" -> "f" [] c = "E" -> "e" [] c = "L" -> "l"
              [] OTHER -> c
    IN  [i \in 1..Len(s) |-> LowerChar(s[i])]

Upper(s) ==
    LET UpperChar(c) ==
            CASE c = "d" -> "D" [] c = "h" -> "H" [] c = "w" -> "W" [] c = "v" -> "V"
              [] c = "r" -> "R" [] c = "s" -> "S" [] c = "q" -> "Q" [] c = "n" -> "N"
              [] c = "a" -> "A" [] c = "x" -> "X" [] c = "p" -> "P" [] c = "u" -> "U"
              [] c = "f" -> "F" [] c = "e" -> "E" [] c = "l" -> "L"
              [] OTHER -> c
    IN  [i \in 1..Len(s) |-> UpperChar(s[i])]

RECURSIVE LStrip(_)
LStrip(s) == IF s # <<>> /\ Head(s) = " " THEN LStrip(Tail(s)) ELSE s

RECURSIVE RStrip(_)
RStrip(s) ==
    IF s # <<>> /\ s[Len(s)] = " " THEN RStrip(SubSeq(s, 1, Len(s) - 1)) ELSE s

\* str.strip()
Strip(s) == RStrip(LStrip(s))

\* s[k:] of Python, k >= 0
Drop(s, k) == IF k >= Len(s) THEN <<>> ELSE SubSeq(s, k + 1, Len(s))

StartsWith(s, p) == Len(s) >= Len(p) /\ SubSeq(s, 1, Len(p)) = p

\* "needle in hay" of Python: a substring test; the empty text is in every text
Contains(hay, needle) ==
    \E i \in 0..(Len(hay) - Len(needle)) :
        SubSeq(hay, i + 1, i + Len(needle)) = needle

\* str.replace(c, ''): every occurrence of character c removed
RemoveChar(s, c) == SelectSeq(s, LAMBDA x : x # c)

RECURSIVE DecimalValue(_)
DecimalValue(ds) ==
    IF ds = <<>> THEN 0
    ELSE 10 * DecimalValue(SubSeq(ds, 1, Len(ds) - 1)) + DigitVal(ds[Len(ds)])

\* int(text): [ok, v]; ok = FALSE stands for the ValueError
ParseInt(text) ==
    LET t == Strip(text)
        signed == t # <<>> /\ t[1] \in {"+", "-"}
        body == IF signed THEN Tail(t) ELSE t
        mag == DecimalValue(RemoveChar(body, "_"))
        \* the digits-with-underscores body int() accepts
        IsIntBody(b) ==
            /\ b # <<>>
            /\ \A i \in 1..Len(b) : b[i] \in Digits \cup {"_"}
            /\ b[1] \in Digits /\ b[Len(b)] \in Digits
            /\ \A i \in 1..(Len(b) - 1) : ~(b[i] = "_" /\ b[i + 1] = "_")
    IN  IF IsIntBody(body)
        THEN [ok |-> TRUE, v |-> IF signed /\ t[1] = "-" THEN 0 - mag ELSE mag]
        ELSE [ok |-> FALSE, v |-> 0]

(***************************************************************************)
(* HistoryNormalizer: calculate_scores.clean_int_field.                    *)
(* The history parser and the racecard page hand in None, int or text;     *)
(* these are the value kinds modelled.                                     *)
(***************************************************************************)
default_invalid == 99

invalid_markers ==
    { <<"n", "/", "a">>, <<"n", "a">>, <<"-">>, <<"-", "-">>,
      <<"n", "u", "l", "l">>, <<"w", "v">>, <<"w", "r">>, <<"r", "r">>,
      <<"p", "u">>, <<"u", "r">>, <<"f", "e">>, <<"d", "s", "q">> }

\* a variant that lacks the dead-heat branch ("DH1" falls to int())
clean_int_field_no_dh(value) ==
    IF value.t = "none" THEN PyInt(default_invalid)
    ELSE IF value.t = "int" THEN value
    ELSE LET txt == Strip(value.s)
             p == ParseInt(txt)
         IN  IF txt = <<>> \/ Lower(txt) \in invalid_markers
                 THEN PyInt(default_invalid)
             ELSE IF p.ok THEN PyInt(p.v) ELSE PyInt(default_invalid)

clean_int_field(value) ==
    IF value.t = "none" THEN PyInt(default_invalid)
    ELSE IF value.t = "int" THEN value
    ELSE LET txt == Strip(value.s)
         IN  IF txt = <<>> THEN PyInt(default_invalid)
             ELSE IF Lower(txt) \in invalid_markers THEN PyInt(default_invalid)
             ELSE IF StartsWith(Upper(txt), <<"D", "H">>)
                 THEN LET p == ParseInt(Drop(txt, 2))
                      IN  IF p.ok THEN PyInt(p.v) ELSE PyInt(default_invalid)
             ELSE LET p == ParseInt(txt)
                  IN  IF p.ok THEN PyInt(p.v) ELSE PyInt(default_invalid)

\* the integer a field holds after cleaning
CleanInt(value) == clean_int_field(value).v

(***************************************************************************)
(* Fixed-point arithmetic.                                                 *)
(***************************************************************************)
\* 1.0 and 0.5
Unit == 1000 * 1000
Half == Unit \div 2

Min(a, b) == IF a < b THEN a ELSE b
Max(a, b) == IF a > b THEN a ELSE b

\* min(1.0, max(0.0, x))
Clamp01(x) == Min(Unit, Max(0, x))

\* round(x, 3), in thousandths
Round3(x) == (x + 500) \div 1000

RECURSIVE SqrtSearch(_, _, _)
SqrtSearch(n, lo, hi) ==
    IF lo >= hi THEN lo
    ELSE LET mid == (lo + hi + 1) \div 2
         IN  IF mid * mid <= n THEN SqrtSearch(n, mid, hi)
                               ELSE SqrtSearch(n, lo, mid - 1)

\* floor of the square root of n, 0 <= n < 2^31
ISqrt(n) == SqrtSearch(n, 0, Min(n, 46340))

RECURSIVE SumSeq(_)
SumSeq(xs) == IF xs = <<>> THEN 0 ELSE Head(xs) + SumSeq(Tail(xs))

Squares(xs) == [i \in 1..Len(xs) |-> xs[i] * xs[i]]

\* 100 * len(xs) * numpy.std(xs), rounded down (population standard
\* deviation: sqrt(n * sum(x^2) - sum(x)^2) / n); the square root is taken
\* at the finest scale that stays within 32 bits
StdTimesN100(xs) ==
    LET v == Len(xs) * SumSeq(Squares(xs)) - SumSeq(xs) * SumSeq(xs)
    IN  IF v <= 200000 THEN ISqrt(v * 10000)
        ELSE IF v <= 20000000 THEN 10 * ISqrt(v * 100)
        ELSE 100 * ISqrt(v)

(***************************************************************************)
(* Realtime scorer: the history cleaning loop and the six dimensions.      *)
(* A history record is [position, barrier, distance, condition,            *)
(* winning_distance]; PyNone in a field is an absent key.                  *)
(***************************************************************************)
\* calculate_scores, history cleaning loop
CleanRecord(record) ==
    [record EXCEPT !.barrier = clean_int_field(record.barrier),
                   !.distance = clean_int_field(record.distance),
                   !.position = clean_int_field(record.position)]

CleanHistory(history) == [i \in 1..Len(history) |-> CleanRecord(history[i])]

\* r.get('position', 99) <= 3 on a cleaned record
IsPlace(r) == r.position.v <= 3
IsWin(r) == r.position.v = 1

\* sum(1 for r in racing_history if r.get('position', 99) <= 3)
CountPlaces(xs) == Cardinality({i \in 1..Len(xs) : IsPlace(xs[i])})

\* sum(1 for record in racing_history if record.get('position') == 1)
CountWins(xs) == Cardinality({i \in 1..Len(xs) : IsWin(xs[i])})

\* float(text) in tenths: [ok, v]; digits with at most one decimal
ParseFloat10(text) ==
    LET t == Strip(text)
        dots == {i \in 1..Len(t) : t[i] = "."}
        whole == IF dots = {} THEN t
                 ELSE SubSeq(t, 1, (CHOOSE i \in dots : TRUE) - 1)
        frac == IF dots = {} THEN <<>>
                ELSE Drop(t, CHOOSE i \in dots : TRUE)
        okDigits(x) == \A i \in 1..Len(x) : x[i] \in Digits
    IN  IF /\ Cardinality(dots) <= 1
           /\ okDigits(whole) /\ okDigits(frac)
           /\ Len(whole) + Len(frac) >= 1
           /\ Len(frac) <= 1
        THEN [ok |-> TRUE,
              v |-> 10 * DecimalValue(whole)
                    + (IF frac = <<>> THEN 0 ELSE DigitVal(frac[1]))]
        ELSE [ok |-> FALSE, v |-> 0]

\* one record's margin in tenths, as _calculate_distance_stability reads it:
\* ok = FALSE is the bare except (the record is skipped)
WinningDistance10(record) ==
    LET wd == record.winning_distance
    IN  IF wd.t = "none" THEN [ok |-> TRUE, v |-> 0]
        ELSE IF wd.t = "int" THEN [ok |-> TRUE, v |-> 10 * wd.v]
        ELSE IF wd.s = <<>> THEN [ok |-> TRUE, v |-> 0]
        ELSE ParseFloat10(RemoveChar(RemoveChar(wd.s, "<"), "m"))

\* racing_history[:k]
Prefix(xs, k) == SubSeq(xs, 1, Min(k, Len(xs)))

_calculate_distance_stability(history) ==
    IF Len(history) < 3 THEN Half
    ELSE LET recent == Prefix(history, 5)
             kept == SelectSeq(recent, LAMBDA r : WinningDistance10(r).ok)
             recent_distances == [i \in 1..Len(kept) |-> WinningDistance10(kept[i]).v]
         IN  IF recent_distances = <<>> THEN Half
             \* 1 - std/10, std in lengths = StdTimesN100 / (1000 n)
             ELSE Min(Unit, Max(0, Unit -
                    (StdTimesN100(recent_distances) * 100) \div Len(recent_distances)))

\* what every dimension returns: (score, details), the details reduced to
\* their warning ("none": no warning is set)
ScoreDetails(score, warning) == [score |-> score, warning |-> warning]

\* a variant that takes the share of the places that were not wins
WinPlaceRatioOfLosses(history) ==
    LET wins == CountWins(history)
        places == CountPlaces(history)
    IN  IF places > 0 THEN ((places - wins) * Unit) \div places ELSE 0

\* wins / places, 0.0 when there is no place
WinPlaceRatio(history) ==
    LET wins == CountWins(history)
        places == CountPlaces(history)
    IN  IF places > 0 THEN (wins * Unit) \div places ELSE 0

_calculate_stability_score(history) ==
    IF history = <<>> THEN ScoreDetails(Half, "no_history")
    ELSE ScoreDetails(Clamp01((WinPlaceRatio(history) * 7
                         + _calculate_distance_stability(history) * 3) \div 10),
                IF CountPlaces(history) < 3 THEN "few_places" ELSE "none")

\* The trend ratio is a quotient of binary floating-point numbers.  Where
\* the exact ratio is 1.2 (0.8), these are the histories, as <<total_races,
\* total_places, recent_places>> up to 12 races, whose float quotient
\* (recent_places / recent_races) / (total_places / total_races) comes out
\* above 1.2 (below 0.8).
_calculate_trend_score(history) ==
    IF history = <<>> THEN ScoreDetails(Half, "no_history")
    ELSE LET total_races == Len(history)
             total_places == CountPlaces(history)
             recent_races == Min(5, total_races)
             recent_places == CountPlaces(Prefix(history, recent_races))
             \* trend_ratio = recent_place_rate / overall_place_rate = num / den
             num == recent_places * total_races
             den == recent_races * total_places
             key == <<total_races, total_places, recent_places>>
             TrendRatioAbove ==
                 { <<6, 1, 1>>, <<6, 2, 2>>, <<6, 4, 4>>, <<9, 3, 2>>, <<9, 6, 4>>,
                   <<12, 2, 1>>, <<12, 4, 2>>, <<12, 8, 4>> }
             TrendRatioBelow == { <<8, 6, 3>>, <<12, 9, 3>> }
             ratio == IF total_places > 0 THEN (num * Unit) \div den
                      ELSE IF recent_places > 0 THEN Unit ELSE Half
             rising == /\ total_places > 0
                       /\ \/ 10 * num > 12 * den
                          \/ 10 * num = 12 * den /\ key \in TrendRatioAbove
             falling == IF total_places > 0
                        THEN \/ 10 * num < 8 * den
                             \/ 10 * num = 8 * den /\ key \in TrendRatioBelow
                        ELSE recent_places = 0
         IN  ScoreDetails(IF rising
                        THEN Min(Unit, (7 * Unit) \div 10 + (ratio - Unit) \div 2)
                    ELSE IF falling THEN (ratio * 7) \div 10
                    ELSE (7 * Unit) \div 10,
                    "none")

_calculate_consistency_score(history) ==
    IF history = <<>> THEN ScoreDetails(Half, "no_history")
    ELSE LET positions == [i \in 1..Len(history) |-> history[i].position.v]
             positions_array == SelectSeq(positions, LAMBDA q : q # 99)
         IN  IF \A i \in 1..Len(positions) : positions[i] = 99
                 THEN ScoreDetails(Half, "positions_incomplete")
             ELSE IF Len(positions_array) < 2 THEN ScoreDetails(Half, "few_samples")
             \* 1 - stddev/10
             ELSE ScoreDetails(Min(Unit, Max(0, Unit -
                           (StdTimesN100(positions_array) * 1000)
                               \div Len(positions_array))),
                         "none")

(***************************************************************************)
(* The population statistic: [isNone, has_race_num, race_num (a Python     *)
(* value), distance, going, rows], rows a function from draw numbers to    *)
(* [top3_rate (Python value, percent), races_run].  A NULL top3_rate is    *)
(* PyNone.                                                                 *)
(***************************************************************************)
\* "draw_statistics and target_barrier in draw_statistics"
HasRow(stats, target_barrier) ==
    ~stats.isNone /\ target_barrier \in DOMAIN stats.rows

\* stat_info.get('top3_rate', 0) / 100 raises TypeError on None
BarrierRaises(stats, barrier) ==
    /\ barrier # 0
    /\ HasRow(stats, barrier)
    /\ stats.rows[barrier].top3_rate.t # "int"

\* a variant that uses the raw population score whatever its sample size
StatScoreUnshrunk(stats, target_barrier) ==
    IF HasRow(stats, target_barrier)
    THEN (((stats.rows[target_barrier].top3_rate.v * Unit) \div 100) * 6) \div 10
         + (35 * Unit) \div 100
    ELSE Half

\* the population score of one row (lines 385-403)
StatScore(stats, target_barrier) ==
    IF HasRow(stats, target_barrier)
    THEN LET stat_info == stats.rows[target_barrier]
             stat_top3_rate == (stat_info.top3_rate.v * Unit) \div 100
             stat_score == (stat_top3_rate * 6) \div 10 + (35 * Unit) \div 100
             stat_races_run == stat_info.races_run
         IN  IF stat_races_run < 20
             THEN (stat_score * stat_races_run + Half * (20 - stat_races_run)) \div 20
             ELSE stat_score
    ELSE Half

\* a variant of the schedule without the interpolation between 3 and 7
PersonalWeight10Flat(n_personal) == IF n_personal >= 3 THEN 8 ELSE 0

\* personal weight in tenths
PersonalWeight10(n_personal) ==
    IF n_personal >= 8 THEN 8
    ELSE IF n_personal >= 3 THEN 3 + (n_personal - 3)
    ELSE 0

\* [score, stat_consumed, stat_races_run, n_personal, personal_weight,
\* stat_score, final_score, warning]; barrier is the cleaned draw of the
\* current race
_calculate_barrier_score_hybrid(history, barrier, stats) ==
    IF barrier = 0
    THEN [score |-> Half, stat_consumed |-> FALSE, stat_races_run |-> 0,
          n_personal |-> 0, personal_weight |-> 0, stat_score |-> 0,
          final_score |-> Half, warning |-> "incomplete"]
    ELSE LET barrier_races == SelectSeq(history, LAMBDA r : r.barrier.v # 0 /\ r.barrier.v = barrier)
             n_personal == Len(barrier_races)
             places == CountPlaces(barrier_races)
             wins == CountWins(barrier_races)
             personal_score == IF n_personal >= 3
                               THEN ((6 * wins + 4 * places) * Unit) \div (10 * n_personal)
                               ELSE 0
             pw == PersonalWeight10(n_personal)
             stat_score == StatScore(stats, barrier)
             final_score == IF n_personal >= 3
                            THEN (pw * personal_score + (10 - pw) * stat_score) \div 10
                            ELSE stat_score
         IN  [score |-> Clamp01(final_score),
              stat_consumed |-> HasRow(stats, barrier),
              stat_races_run |-> IF HasRow(stats, barrier)
                                 THEN stats.rows[barrier].races_run ELSE 0,
              n_personal |-> n_personal,
              \* personal_weight in thousandths; stat_score and final_score
              \* as the blend uses and returns them, before any rounding
              personal_weight |-> 100 * pw,
              stat_score |-> stat_score,
              final_score |-> Clamp01(final_score),
              warning |-> IF n_personal < 3 THEN "insufficient"
                          ELSE IF n_personal < 5 THEN "few" ELSE "none"]

_calculate_distance_score(history, target_distance) ==
    IF history = <<>> \/ target_distance = 0 THEN ScoreDetails(Half, "distance_incomplete")
    ELSE LET distance_races ==
                 SelectSeq(history, LAMBDA r :
                     /\ r.distance.v # 0
                     /\ r.distance.v - target_distance <= 100
                     /\ target_distance - r.distance.v <= 100)
             places == CountPlaces(distance_races)
         IN  IF distance_races = <<>> THEN ScoreDetails(Half, "no_distance_match")
             ELSE ScoreDetails(Clamp01((places * 8 * Unit) \div (10 * Len(distance_races))
                                 + (2 * Unit) \div 10),
                         "none")

\* text.replace(ground, '').strip().lower()
NormalizeGoing(text) == Lower(Strip(RemoveChar(text, "@")))

\* a variant that returns the neutral score without a warning
_calculate_going_score_unflagged(history, going) == ScoreDetails(Half, "none")

\* going is the race's surface text, PyNone when absent
_calculate_going_score(history, going) ==
    IF history = <<>> \/ going.t = "none" \/ going.s = <<>>
        THEN ScoreDetails(Half, "going_incomplete")
    ELSE LET target_going == NormalizeGoing(going.s)
             going_races ==
                 SelectSeq(history, LAMBDA r :
                     LET r_going == NormalizeGoing(r.condition)
                     IN  Contains(r_going, target_going)
                            \/ Contains(target_going, r_going))
             places == CountPlaces(going_races)
         IN  IF going_races = <<>> THEN ScoreDetails(Half, "no_going_match")
             ELSE ScoreDetails(Clamp01((places * 7 * Unit) \div (10 * Len(going_races))
                                 + (3 * Unit) \div 10),
                         "none")

\* the six-level ladder, on the unrounded total
_calculate_grade(score) ==
    IF score >= 850000 THEN "A"
    ELSE IF score >= 750000 THEN "A-"
    ELSE IF score >= 650000 THEN "B+"
    ELSE IF score >= 550000 THEN "B"
    ELSE IF score >= 450000 THEN "B-"
    ELSE "C"

(***************************************************************************)
(* RealtimeLegFitnessScorer.calculate_scores.                              *)
(* race_info is [race_num, barrier, distance, going], each a Python value  *)
(* (PyNone: the key is absent).  An outcome is a scorecard (scores in      *)
(* thousandths, as round(x, 3) leaves them) or the exception raised.       *)
(***************************************************************************)
NoResult ==
    [kind |-> "none", barrier |-> 0, distance |-> 0, going |-> 0,
     stability |-> 0, trend |-> 0, consistency |-> 0, total_score |-> 0,
     grade |-> "", timestamp |-> 0, stat_consumed |-> FALSE,
     stat_races_run |-> 0,
     details |-> [barrier_races |-> 0, personal_weight |-> 0, stat_score |-> 0,
                  final_score |-> 0,
                  barrier |-> "", distance |-> "", going |-> "", stability |-> "",
                  trend |-> "", consistency |-> ""]]

Raised(exception) == [NoResult EXCEPT !.kind = exception]

\* a variant of the check that never raises
RaceMismatchOff(info_race_num, stats) == FALSE

\* the anti-contamination check (lines 227-240): TRUE when it raises.
\* info_race_num is the cleaned race number; 0 is falsy and skips the check
RaceMismatch(info_race_num, stats) ==
    /\ ~stats.isNone
    /\ stats.has_race_num
    /\ info_race_num.v # 0
    /\ info_race_num # stats.race_num

\* a variant of the weights in which the barrier counts for a quarter
total_score_weights_skewed ==
    [barrier |-> 25, distance |-> 20, going |-> 10, stability |-> 25,
     trend |-> 15, consistency |-> 10]

\* the weights of the six dimensions in the total (lines 261-269), in percent
total_score_weights ==
    [barrier |-> 20, distance |-> 20, going |-> 10, stability |-> 25,
     trend |-> 15, consistency |-> 10]

\* the weighted total, the grade and the scorecard of the six dimension
\* results (lines 262-289)
Scorecard(b, d, g, s, t, c, clock) ==
    LET total_score == (b.score * total_score_weights.barrier
                        + d.score * total_score_weights.distance
                        + g.score * total_score_weights.going
                        + s.score * total_score_weights.stability
                        + t.score * total_score_weights.trend
                        + c.score * total_score_weights.consistency)
                       \div 100
    IN  [kind |-> "scorecard",
         barrier |-> Round3(b.score),
         distance |-> Round3(d.score),
         going |-> Round3(g.score),
         stability |-> Round3(s.score),
         trend |-> Round3(t.score),
         consistency |-> Round3(c.score),
         total_score |-> Round3(total_score),
         grade |-> _calculate_grade(total_score),
         timestamp |-> clock,
         stat_consumed |-> b.stat_consumed,
         stat_races_run |-> b.stat_races_run,
         \* the details of the six dimensions: the barrier's sample count,
         \* weight, population score and blended score (millionths, as
         \* _calculate_barrier_score_hybrid computes them), and every
         \* dimension's warning
         details |-> [barrier_races |-> b.n_personal,
                      personal_weight |-> b.personal_weight,
                      stat_score |-> b.stat_score,
                      final_score |-> b.final_score,
                      barrier |-> b.warning, distance |-> d.warning,
                      going |-> g.warning, stability |-> s.warning,
                      trend |-> t.warning, consistency |-> c.warning]]

\* the race check and the six dimensions on the cleaned inputs
\* (lines 228-260)
ScoreCleaned(history, barrier, distance, going, race_num, stats, clock) ==
    IF RaceMismatch(race_num, stats) THEN Raised("ValueError")
    ELSE IF BarrierRaises(stats, barrier) THEN Raised("TypeError")
    ELSE Scorecard(_calculate_barrier_score_hybrid(history, barrier, stats),
                   _calculate_distance_score(history, distance),
                   _calculate_going_score(history, going),
                   _calculate_stability_score(history),
                   _calculate_trend_score(history),
                   _calculate_consistency_score(history),
                   clock)

\* the inputs are cleaned first (lines 178-225), then scored
calculate_scores(history_in, info_in, stats, clock) ==
    ScoreCleaned(CleanHistory(history_in), CleanInt(info_in.barrier),
                 CleanInt(info_in.distance), info_in.going,
                 clean_int_field(info_in.race_num), stats, clock)

(***************************************************************************)
(* Inputs.  History records are what the history parser yields (cell text) *)
(* or what a caller builds by hand (integers).                             *)
(***************************************************************************)
Txt1(a) == PyStr(<<a>>)
Rec(position, barrier, distance, condition, winning_distance) ==
    [position |-> position, barrier |-> barrier, distance |-> distance,
     condition |-> condition, winning_distance |-> winning_distance]

HistoryPool ==
    { \* a win from draw 3 over 1200 on good ground
      Rec(Txt1("1"), Txt1("3"), PyStr(<<"1", "2", "0", "0">>), <<"g">>, Txt1("0")),
      \* a second from draw 3 on good-to-fast ground, 3 lengths behind
      Rec(Txt1("2"), PyInt(3), PyInt(1200), <<"g", "/", "k">>, PyInt(3)),
      \* unplaced from draw 7 over 1650 on yielding ground, margin "head"
      Rec(PyStr(<<"1", "2">>), PyInt(7), PyInt(1650), <<"y", "@">>, Txt1("t")),
      \* a withdrawal: sentinel position, empty cells
      Rec(PyStr(<<"W", "V">>), PyStr(<<>>), PyInt(1200), <<>>, PyStr(<<>>)),
      \* a dead-heat win from draw 3, 30 lengths recorded
      Rec(PyStr(<<"D", "H", "1">>), PyInt(3), PyInt(1400), <<"g">>, PyInt(30)),
      \* fifth from draw 3, no position key problems, margin missing
      Rec(PyInt(5), Txt1("3"), PyInt(1200), <<"g", "@">>, PyNone) }

Histories(n) == UNION {[1..k -> HistoryPool] : k \in 0..n}

\* histories longer than the five recent races the trend dimension reads:
\* five recent runs of one kind and then older runs of another
Repeat(record, k) == [i \in 1..k |-> record]

LongHistories ==
    LET won == Rec(Txt1("1"), Txt1("3"), PyStr(<<"1", "2", "0", "0">>), <<"g">>, Txt1("0"))
        unplaced == Rec(PyStr(<<"1", "2">>), PyInt(7), PyInt(1650), <<"y", "@">>, Txt1("t"))
        fifth == Rec(PyInt(5), Txt1("3"), PyInt(1200), <<"g", "@">>, PyNone)
    IN  UNION {{Repeat(won, 5) \o Repeat(unplaced, k),
                Repeat(won, 5) \o Repeat(fifth, k),
                Repeat(unplaced, 5) \o Repeat(won, k),
                Repeat(fifth, 4) \o <<won>> \o Repeat(unplaced, k),
                <<won, fifth, won, unplaced, won>> \o Repeat(fifth, k)} : k \in 1..MaxTail}

Info(race_num, barrier, distance, going) ==
    [race_num |-> race_num, barrier |-> barrier, distance |-> distance,
     going |-> going]

NoInfo == Info(PyNone, PyNone, PyNone, PyNone)

Row(top3_rate, races_run) == [top3_rate |-> top3_rate, races_run |-> races_run]

RowsFull == (3 :> Row(PyInt(39), 100)) @@ (7 :> Row(PyInt(20), 10))
RowsNull == (3 :> Row(PyNone, 100)) @@ (7 :> Row(PyInt(80), 0))
RowsEmpty == [d \in {} |-> Row(PyNone, 0)]

Stats(has_race_num, race_num, distance, going, rows) ==
    [isNone |-> FALSE, has_race_num |-> has_race_num, race_num |-> race_num,
     distance |-> distance, going |-> going, rows |-> rows]

NoStats ==
    [isNone |-> TRUE, has_race_num |-> FALSE, race_num |-> PyNone,
     distance |-> 0, going |-> <<>>, rows |-> RowsEmpty]

StatsValues ==
    {NoStats}
    \cup {Stats(TRUE, PyInt(n), d, <<"g">>, rows) :
            n \in {1, 2}, d \in {1200, 1650}, rows \in {RowsFull, RowsNull, RowsEmpty}}
    \cup {Stats(FALSE, PyNone, d, <<"g">>, rows) :
            d \in {1200, 1650}, rows \in {RowsFull, RowsNull, RowsEmpty}}

(***************************************************************************)
(* LegFitnessCalculator: the secondary four-dimension profile.             *)
(* horse_metrics is [isNone, overall_placement_rate, recent_placement_rate,*)
(* win_place_ratio (thousandths, as DataPreprocessor rounds them),         *)
(* avg_win_distance (hundredths of a length), venue_best (the best venue   *)
(* rate in thousandths, -1 when venue_stats is empty)].                    *)
(* draw_stats is [isNone, has_win_rate, win_rate (thousandths)].           *)
(***************************************************************************)
Metrics(overall, recent, ratio, avg_win_distance, venue_best) ==
    [isNone |-> FALSE, overall_placement_rate |-> overall,
     recent_placement_rate |-> recent, win_place_ratio |-> ratio,
     avg_win_distance |-> avg_win_distance, venue_best |-> venue_best]

\* DataPreprocessor._get_empty_metrics
EmptyMetrics == Metrics(0, 0, 0, 0, -1)

NoDrawStats == [isNone |-> TRUE, has_win_rate |-> FALSE, win_rate |-> 0]
DrawStats(win_rate) == [isNone |-> FALSE, has_win_rate |-> TRUE, win_rate |-> win_rate]

NoFitness ==
    [kind |-> "none", total_score |-> 0, grade |-> "", dimension_a |-> 0,
     dimension_b |-> 0, dimension_c |-> 0, dimension_d |-> 0]

\* dimension A without its normalisation to [0, 1]
calc_dimension_a_unclamped(m) ==
    ((6 * m.overall_placement_rate + 4 * m.recent_placement_rate) * 150)

calc_dimension_a(m) ==
    \* (overall*0.4 + recent*0.4 + overall*0.2) * 1.5, clamped
    Clamp01((6 * m.overall_placement_rate + 4 * m.recent_placement_rate) * 150)

calc_dimension_b(m) ==
    LET ratio == m.win_place_ratio
        dev == IF ratio >= 400 THEN ratio - 400 ELSE 400 - ratio
        ratio_score == IF ratio > 0 THEN Unit - dev * 2500 ELSE Half
        distance_score == Max(0, Unit - m.avg_win_distance * 2000)
    IN  Clamp01((ratio_score * 7 + distance_score * 3) \div 10)

calc_dimension_c(m, ds) ==
    LET draw_advantage ==
            IF ~ds.isNone /\ ds.has_win_rate
            THEN Min((15 * Unit) \div 10, (ds.win_rate * Unit) \div 120)
            ELSE Unit
        overall_rate == m.overall_placement_rate
        venue_advantage ==
            IF m.venue_best >= 0 /\ overall_rate > 0
            THEN Min((15 * Unit) \div 10, (m.venue_best * Unit) \div overall_rate)
            ELSE Unit
    IN  Clamp01((draw_advantage * 6 + venue_advantage * 4) \div 15)

calc_dimension_d(m) ==
    LET overall == m.overall_placement_rate
        recent == m.recent_placement_rate
    IN  IF overall <= 0 THEN Half
        ELSE IF 10 * recent >= 12 * overall THEN (9 * Unit) \div 10
        ELSE IF recent >= overall THEN (8 * Unit) \div 10
        ELSE IF 10 * recent >= 8 * overall THEN (7 * Unit) \div 10
        ELSE IF 10 * recent >= 5 * overall THEN Half
        ELSE (2 * Unit) \div 10

\* the five-level ladder
convert_score_to_grade(score) ==
    IF score >= 800000 THEN "A"
    ELSE IF score >= 650000 THEN "B"
    ELSE IF score >= 500000 THEN "C"
    ELSE IF score >= 350000 THEN "D"
    ELSE "E"

_get_default_score ==
    [kind |-> "default", total_score |-> 500, grade |-> "C", dimension_a |-> 500,
     dimension_b |-> 500, dimension_c |-> 500, dimension_d |-> 500]

\* LegFitnessCalculator.WEIGHTS, in percent
WEIGHTS ==
    [dimension_a |-> 30, dimension_b |-> 25, dimension_c |-> 25, dimension_d |-> 20]

calc_leg_fitness_score(m, ds) ==
    IF m.isNone THEN _get_default_score
    ELSE LET dim_a == calc_dimension_a(m)
             dim_b == calc_dimension_b(m)
             dim_c == calc_dimension_c(m, ds)
             dim_d == calc_dimension_d(m)
             total_score == (dim_a * WEIGHTS.dimension_a + dim_b * WEIGHTS.dimension_b
                             + dim_c * WEIGHTS.dimension_c + dim_d * WEIGHTS.dimension_d)
                            \div 100
         IN  [kind |-> "scorecard", total_score |-> Round3(total_score),
              grade |-> convert_score_to_grade(total_score),
              dimension_a |-> Round3(dim_a), dimension_b |-> Round3(dim_b),
              dimension_c |-> Round3(dim_c), dimension_d |-> Round3(dim_d)]


(***************************************************************************)
(* RunstylePredictor and the prediction page's conversions.                *)
(* A converted history record is [distance, running_path, date]: distance  *)
(* an integer, running_path text, date a number standing for the ISO date  *)
(* text (same order).  Positions are exact rationals: a baseline is kept   *)
(* as the pair of weighted sum and weight total, in tenths.                *)
(***************************************************************************)
\* page_pace_prediction_integrated.safe_int_convert: int(float(value))
safe_int_convert(value, default) ==
    IF value.t = "none" THEN default
    ELSE IF value.t = "int" THEN value.v
    ELSE LET txt == Strip(value.s)
             f == ParseFloat10(txt)
         IN  IF txt = <<>> THEN default
             ELSE IF f.ok THEN f.v \div 10 ELSE default

Abs(x) == IF x < 0 THEN 0 - x ELSE x

_filter_history_by_distance(history, target_distance) ==
    LET within(tol) ==
            SelectSeq(history, LAMBDA r :
                r.distance # 0 /\ Abs(r.distance - target_distance) <= tol)
    IN  IF history = <<>> \/ target_distance = 0 THEN history
        ELSE IF Len(within(200)) >= 3 THEN within(200)
        ELSE IF Len(within(400)) >= 3 THEN within(400)
        ELSE history

\* a variant that takes the midpoint of a 12-runner field for every field
_get_draw_analysis_of_twelve(draw, total) ==
    IF 2 * draw <= 13 - 4 THEN -3
    ELSE IF 2 * draw >= 13 + 4 THEN 5
    ELSE IF 2 * draw >= 13 - 2 /\ 2 * draw <= 13 + 2 THEN 0
    ELSE IF 2 * draw > 13 + 2 THEN 3
    ELSE -1

\* the adjustment in tenths of a position; midpoint = (total + 1) / 2
_get_draw_analysis(draw, total) ==
    IF 2 * draw <= total + 1 - 4 THEN -3
    ELSE IF 2 * draw >= total + 1 + 4 THEN 5
    ELSE IF 2 * draw >= total + 1 - 2 /\ 2 * draw <= total + 1 + 2 THEN 0
    ELSE IF 2 * draw > total + 1 + 2 THEN 3
    ELSE -1

\* the first position of a running path: [ok, v]; ok = FALSE when the
\* record is skipped (no path, no token, or int() raising)
EarlyPosition(running_path) ==
    LET norm == [i \in 1..Len(running_path) |->
                    IF running_path[i] \in {" ", ","} THEN "-" ELSE running_path[i]]
        inTok == {i \in 1..Len(norm) : norm[i] # "-"}
        first == CHOOSE i \in inTok : \A j \in inTok : i <= j
        last == CHOOSE j \in inTok :
                    /\ \A k \in first..j : k \in inTok
                    /\ (j + 1) \notin inTok
    IN  IF running_path = <<>> \/ running_path = <<"-">> \/ running_path = <<"-", "-">>
            THEN [ok |-> FALSE, v |-> 0]
        ELSE IF inTok = {} THEN [ok |-> FALSE, v |-> 0]
        ELSE ParseInt(SubSeq(norm, first, last))

\* sort(key=date, reverse=True): stable, latest first
RECURSIVE SortByDate(_)
SortByDate(xs) ==
    IF xs = <<>> THEN <<>>
    ELSE LET rest == SortByDate(SubSeq(xs, 1, Len(xs) - 1))
             x == xs[Len(xs)]
         IN  SelectSeq(rest, LAMBDA y : y.date >= x.date) \o <<x>>
             \o SelectSeq(rest, LAMBDA y : y.date < x.date)

\* n^2 * variance of the positions (np.std is the population deviation)
SpreadN2(positions) ==
    Len(positions) * SumSeq(Squares(positions)) - SumSeq(positions) * SumSeq(positions)

\* a variant whose penalty reads the spread alone, a single position
\* having none
_calculate_confidence_by_spread(positions, filtered_count) ==
    LET n == Len(positions)
        base_confidence == IF filtered_count >= 6 THEN 85
                           ELSE IF filtered_count >= 4 THEN 75
                           ELSE IF filtered_count >= 3 THEN 65
                           ELSE 50
        stability_penalty ==
            IF SpreadN2(positions) > 9 * n * n THEN -15
            ELSE IF SpreadN2(positions) > 4 * n * n THEN -10
            ELSE IF 4 * SpreadN2(positions) > 9 * n * n THEN -5
            ELSE 0
    IN  Max(0, Min(100, base_confidence + stability_penalty))

_calculate_confidence(positions, filtered_count) ==
    LET n == Len(positions)
        base_confidence == IF filtered_count >= 6 THEN 85
                           ELSE IF filtered_count >= 4 THEN 75
                           ELSE IF filtered_count >= 3 THEN 65
                           ELSE 50
        stability_penalty ==
            IF n > 1
            THEN IF SpreadN2(positions) > 9 * n * n THEN -15
                 ELSE IF SpreadN2(positions) > 4 * n * n THEN -10
                 ELSE IF 4 * SpreadN2(positions) > 9 * n * n THEN -5
                 ELSE 0
            ELSE -10
    IN  Max(0, Min(100, base_confidence + stability_penalty))

NonePrediction ==
    [isNone |-> TRUE, horse_name |-> "", running_style |-> "", confidence |-> 0,
     is_new_horse |-> FALSE, early_positions |-> <<>>, adjusted_position |-> 0]

\* a variant in which the two thresholds coincide
back_threshold_collapsed(total) == 3 * total

\* total_runners * 0.3 and total_runners * 0.7, in tenths of a position
front_threshold(total) == 3 * total
back_threshold(total) == 7 * total

\* FRONT / MID / BACK from a position num/den against the two thresholds.
\* The code compares binary floating-point numbers.  A position that is
\* exactly 0.3 or 0.7 of the field falls on either side of the float
\* threshold, as the operands round: "down" is at or under it, "up" over it.
StyleOf(num, den, total, rounding) ==
    IF 10 * num < front_threshold(total) * den
          \/ (10 * num = front_threshold(total) * den /\ rounding = "down") THEN "FRONT"
    ELSE IF 10 * num > back_threshold(total) * den
          \/ (10 * num = back_threshold(total) * den /\ rounding = "up") THEN "BACK"
    ELSE "MID"

\* round(num / den, 2) in hundredths, for num / den >= 0
Round2(num, den) == (200 * num + den) \div (2 * den)

\* horse_data is [horse_name, draw, distance, history]
predict_running_style(horse_data, total, rounding) ==
    LET filtered_history ==
            _filter_history_by_distance(horse_data.history, horse_data.distance)
        valid == SelectSeq(filtered_history,
                           LAMBDA r : EarlyPosition(r.running_path).ok)
        sorted == SortByDate(valid)
        early_positions == [i \in 1..Len(sorted) |->
                               EarlyPosition(sorted[i].running_path).v]
        \* recency weights max(0.5, 1 - 0.1 idx), in tenths
        weights == [i \in 1..Len(sorted) |-> Max(5, 10 - (i - 1))]
        weighted == SumSeq([i \in 1..Len(sorted) |-> early_positions[i] * weights[i]])
        total_weight == SumSeq(weights)
        draw_adjustment == _get_draw_analysis(horse_data.draw, total)
    IN  IF horse_data.history = <<>> THEN NonePrediction
        ELSE IF early_positions = <<>> THEN NonePrediction
        ELSE [isNone |-> FALSE, horse_name |-> horse_data.horse_name,
              \* adjusted = weighted / total_weight + draw_adjustment / 10
              running_style |-> StyleOf(10 * weighted + draw_adjustment * total_weight,
                                        10 * total_weight, total, rounding),
              confidence |-> _calculate_confidence(early_positions,
                                                   Len(filtered_history)),
              is_new_horse |-> FALSE,
              early_positions |-> early_positions,
              adjusted_position |-> Round2(10 * weighted + draw_adjustment * total_weight,
                                           10 * total_weight)]

\* a variant in which a higher rating moves the horse forward
predict_new_horse_running_style_rating_forward(horse_data, total, rounding) ==
    LET \* tenths: midpoint + draw adjustment - (rating - 70) / 20 * 2
        raw_pos == 5 * (total + 1) + _get_draw_analysis(horse_data.draw, total)
                   - (horse_data.rating - 70)
        adjusted_pos == Max(10, Min(raw_pos, 10 * total))
        confidence_bonus == IF horse_data.rating >= 80 THEN 10
                            ELSE IF horse_data.rating >= 70 THEN 5 ELSE 0
    IN  [isNone |-> FALSE, horse_name |-> horse_data.horse_name,
         running_style |-> StyleOf(adjusted_pos, 10, total, rounding),
         confidence |-> Min(60, 50 + confidence_bonus),
         is_new_horse |-> TRUE,
         early_positions |-> <<>>,
         adjusted_position |-> 10 * adjusted_pos]

\* horse_data is [horse_name, draw, rating]
predict_new_horse_running_style(horse_data, total, rounding) ==
    LET \* tenths: midpoint + draw adjustment + (rating - 70) / 20 * 2
        raw_pos == 5 * (total + 1) + _get_draw_analysis(horse_data.draw, total)
                   + (horse_data.rating - 70)
        adjusted_pos == Max(10, Min(raw_pos, 10 * total))
        confidence_bonus == IF horse_data.rating >= 80 THEN 10
                            ELSE IF horse_data.rating >= 70 THEN 5 ELSE 0
    IN  [isNone |-> FALSE, horse_name |-> horse_data.horse_name,
         running_style |-> StyleOf(adjusted_pos, 10, total, rounding),
         confidence |-> Min(60, 50 + confidence_bonus),
         is_new_horse |-> TRUE,
         early_positions |-> <<>>,
         adjusted_position |-> 10 * adjusted_pos]


(***************************************************************************)
(* PacePredictor: the distribution estimator, the front-pressure (EPP)     *)
(* estimator and the confidence-weighted fusion.                           *)
(* A prediction handed to the pace predictor is [running_style,            *)
(* adjusted_position, draw]: adjusted_position a Python value in           *)
(* hundredths of a position, draw a Python value; PyNone is an absent key. *)
(* Confidences are in tenths of a percent, pace values in hundredths,      *)
(* template counts in halves of a horse.                                   *)
(***************************************************************************)
Pred(running_style, adjusted_position, draw) ==
    [running_style |-> running_style, adjusted_position |-> adjusted_position,
     draw |-> draw]

\* the keys of pace_templates in dict order
PaceTypes == <<"FAST", "MODERATELY_FAST", "NORMAL", "MODERATELY_SLOW", "SLOW">>

\* twice the expected counts of a 12-horse field
pace_templates ==
    [FAST |-> [FRONT |-> 13, MID |-> 7, BACK |-> 3],
     MODERATELY_FAST |-> [FRONT |-> 9, MID |-> 9, BACK |-> 5],
     NORMAL |-> [FRONT |-> 7, MID |-> 11, BACK |-> 5],
     MODERATELY_SLOW |-> [FRONT |-> 5, MID |-> 9, BACK |-> 9],
     SLOW |-> [FRONT |-> 3, MID |-> 7, BACK |-> 13]]

get_runstyle_distribution(preds) ==
    LET count(style) ==
            Cardinality({i \in 1..Len(preds) : preds[i].running_style = style})
    IN  [FRONT |-> count("FRONT"), MID |-> count("MID"), BACK |-> count("BACK"),
         total |-> count("FRONT") + count("MID") + count("BACK")]

\* the distance of the counts as they are, without the scaling to a field
\* of 12; the square of 2 * total * distance
calculate_distance_to_template_unscaled(actual_dist, template) ==
    LET side(c, t2) == actual_dist.total * (2 * c - t2)
    IN  side(actual_dist.FRONT, template.FRONT) * side(actual_dist.FRONT, template.FRONT)
        + side(actual_dist.MID, template.MID) * side(actual_dist.MID, template.MID)
        + side(actual_dist.BACK, template.BACK) * side(actual_dist.BACK, template.BACK)

\* the square of 2 * total * distance: the counts are scaled by 12 / total,
\* so distance = sqrt(sum (12 c / total - t)^2); called with total > 0 only
calculate_distance_to_template(actual_dist, template) ==
    LET side(c, t2) == 24 * c - t2 * actual_dist.total
    IN  side(actual_dist.FRONT, template.FRONT) * side(actual_dist.FRONT, template.FRONT)
        + side(actual_dist.MID, template.MID) * side(actual_dist.MID, template.MID)
        + side(actual_dist.BACK, template.BACK) * side(actual_dist.BACK, template.BACK)

\* u^2 <= c^2 * d for naturals u, d and c > 0, within 32 bits:
\* with u = c q + s, u^2 <= c^2 d iff 2 c q s + s^2 <= c^2 (d - q^2)
SquareLeq(u, c, d) ==
    LET q == u \div c
        s == u % c
        g == d - q * q
    IN  IF g < 0 THEN FALSE
        ELSE IF g >= 2 * q + 1 THEN TRUE
        ELSE 2 * c * q * s + s * s <= c * c * g

\* the largest r in lo..hi with r - 1/2 <= k sqrt(d) / den
RECURSIVE RootSearch(_, _, _, _, _)
RootSearch(k, d, den, lo, hi) ==
    IF lo >= hi THEN lo
    ELSE LET mid == (lo + hi + 1) \div 2
         IN  IF SquareLeq((2 * mid - 1) * den, 2 * k, d)
             THEN RootSearch(k, d, den, mid, hi)
             ELSE RootSearch(k, d, den, lo, mid - 1)

\* k * sqrt(d) / den rounded to the nearest integer
NearestScaledRoot(k, d, den) ==
    RootSearch(k, d, den, 0, (k * (ISqrt(d) + 1)) \div den + 1)

\* [pace_type, confidence, min_distance (thousandths), status]
predict_pace_diagnostic(preds) ==
    LET distribution == get_runstyle_distribution(preds)
        total == distribution.total
        distances == [i \in 1..5 |->
            calculate_distance_to_template(distribution, pace_templates[PaceTypes[i]])]
        \* min(distances, key=distances.get): the first key of the least value
        best == CHOOSE i \in 1..5 :
                    /\ \A j \in 1..5 : distances[i] <= distances[j]
                    /\ \A j \in 1..(i - 1) : distances[j] > distances[i]
        min_distance == distances[best]
        second_distance ==
            CHOOSE v \in {distances[j] : j \in (1..5) \ {best}} :
                \A j \in (1..5) \ {best} : v <= distances[j]
        \* sorted(distances.values())[1] - min_distance < 0.5 on the squares
        \* d2 >= d1
        SecondIsClose(d1, d2, n) ==
            LET gap == d2 - d1 - n * n
            IN  IF gap < 0 THEN TRUE
                ELSE IF gap >= 46341 THEN FALSE
                ELSE gap * gap < 4 * n * n * d1
        \* 100 - (min_distance / 6) * 100, clamped, and 0.8 of it when the
        \* second archetype is close; round(confidence, 1)
        confidence ==
            IF SecondIsClose(min_distance, second_distance, total)
            THEN Max(0, 800 - NearestScaledRoot(200, min_distance, 3 * total))
            ELSE Max(0, 1000 - NearestScaledRoot(250, min_distance, 3 * total))
    IN  IF total = 0
        THEN [pace_type |-> "NORMAL", confidence |-> 0, min_distance |-> 0,
              status |-> "no_data"]
        ELSE [pace_type |-> PaceTypes[best], confidence |-> confidence,
              min_distance |-> NearestScaledRoot(500, min_distance, total),
              status |-> "ok"]

\* [pace_type, pace_value (hundredths), confidence, status, front_horses_count]
predict_pace_by_epp(preds, total_horses) ==
    LET \* p.get('draw', 6)
        DrawOf(p) == IF p.draw.t = "none" THEN 6 ELSE p.draw.v
        \* adj_pos <= total_horses / 3.0
        front == {i \in 1..Len(preds) :
                     /\ preds[i].adjusted_position.t # "none"
                     /\ 3 * preds[i].adjusted_position.v <= 100 * total_horses}
        outside == {i \in front : DrawOf(preds[i]) >= 9}
        \* twice the index: weight 1.5 from draw 9 outwards, 1.0 otherwise
        epp2 == 3 * Cardinality(outside) + 2 * Cardinality(front \ outside)
        band == IF epp2 <= 4 THEN [pace_type |-> "SLOW", confidence |-> 750]
                ELSE IF 10 * epp2 <= 64 THEN [pace_type |-> "MODERATELY_SLOW", confidence |-> 750]
                ELSE IF epp2 <= 9 THEN [pace_type |-> "NORMAL", confidence |-> 800]
                ELSE IF 10 * epp2 <= 116 THEN [pace_type |-> "MODERATELY_FAST", confidence |-> 750]
                ELSE [pace_type |-> "FAST", confidence |-> 700]
    IN  IF preds = <<>>
        THEN [pace_type |-> "NORMAL", pace_value |-> 200, confidence |-> 0,
              status |-> "no_data", front_horses_count |-> 0]
        \* epp / total_horses raises ZeroDivisionError, caught by the handler
        ELSE IF total_horses = 0
        THEN [pace_type |-> "NORMAL", pace_value |-> 200, confidence |-> 0,
              status |-> "error", front_horses_count |-> 0]
        ELSE [pace_type |-> band.pace_type, pace_value |-> 50 * epp2,
              confidence |-> band.confidence, status |-> "ok",
              front_horses_count |-> Cardinality(front)]

_pace_type_to_value(pace_type) ==
    IF pace_type = "SLOW" THEN 100
    ELSE IF pace_type = "MODERATELY_SLOW" THEN 150
    ELSE IF pace_type = "NORMAL" THEN 200
    ELSE IF pace_type = "MODERATELY_FAST" THEN 250
    ELSE IF pace_type = "FAST" THEN 300
    ELSE 200

\* the value is num / den, in hundredths
_value_to_pace_type(num, den) ==
    IF num <= 125 * den THEN "SLOW"
    ELSE IF num <= 175 * den THEN "MODERATELY_SLOW"
    ELSE IF num <= 225 * den THEN "NORMAL"
    ELSE IF num <= 275 * den THEN "MODERATELY_FAST"
    ELSE "FAST"

NoDiagnosis ==
    [status |-> "none", pace_type |-> "", confidence |-> 0,
     traditional |-> [pace_type |-> "", pace_value |-> 0, confidence |-> 0,
                      min_distance |-> 0, status |-> ""],
     epp |-> [pace_type |-> "", pace_value |-> 0, confidence |-> 0, status |-> ""],
     fusion_value |-> [num |-> 0, den |-> 1], divergence |-> 0,
     recommendation |-> "", warning |-> FALSE]

\* a variant that applies the rule of the 15 points to every diagnosis
RecommendationUnguarded(divergence, conf_traditional, conf_epp) ==
    IF conf_traditional > conf_epp + 150 THEN "favor_traditional"
    ELSE IF conf_epp > conf_traditional + 150 THEN "favor_epp"
    ELSE "divergent"

\* the consensus / divergence reading of the two confidences (lines 584-595)
Recommendation(divergence, conf_traditional, conf_epp) ==
    IF divergence >= 100
    THEN IF conf_traditional > conf_epp + 150 THEN "favor_traditional"
         ELSE IF conf_epp > conf_traditional + 150 THEN "favor_epp"
         ELSE "divergent"
    ELSE "consistent"

\* confidence is confidence_fusion before round(x, 1), in thousandths of a
\* percent; fusion_value is pace_value_fusion as an exact fraction
predict_pace_hybrid_v1_confidence_weighted(preds, total_horses) ==
    IF preds = <<>>
    THEN [NoDiagnosis EXCEPT !.status = "no_data", !.pace_type = "NORMAL"]
    ELSE
    LET pace_traditional == predict_pace_diagnostic(preds)
        conf_traditional == pace_traditional.confidence
        pace_value_t == _pace_type_to_value(pace_traditional.pace_type)
        pace_epp == predict_pace_by_epp(preds, total_horses)
        conf_epp == pace_epp.confidence
        pace_value_e == pace_epp.pace_value
        total_confidence == conf_traditional + conf_epp
        \* w_traditional * pace_value_t + w_epp * pace_value_e
        fusion_value ==
            IF total_confidence > 0
            THEN [num |-> conf_traditional * pace_value_t + conf_epp * pace_value_e,
                  den |-> total_confidence]
            ELSE [num |-> pace_value_t + pace_value_e, den |-> 2]
        divergence == Abs(pace_value_t - pace_value_e)
        confidence_fusion ==
            IF divergence < 50 THEN Min(95000, total_confidence * 60)
            ELSE IF divergence < 100 THEN total_confidence * 50
            ELSE total_confidence * 40
    IN  [status |-> "success",
         pace_type |-> _value_to_pace_type(fusion_value.num, fusion_value.den),
         confidence |-> confidence_fusion,
         traditional |-> [pace_type |-> pace_traditional.pace_type,
                          pace_value |-> pace_value_t,
                          confidence |-> conf_traditional,
                          min_distance |-> pace_traditional.min_distance,
                          status |-> pace_traditional.status],
         epp |-> [pace_type |-> pace_epp.pace_type, pace_value |-> pace_value_e,
                  confidence |-> conf_epp, status |-> pace_epp.status],
         fusion_value |-> fusion_value,
         divergence |-> divergence,
         recommendation |-> Recommendation(divergence, conf_traditional, conf_epp),
         warning |-> divergence >= 100]

(***************************************************************************)
(* Components at rest: each specification below starts one component on    *)
(* its inputs and leaves the others at rest.                               *)
(***************************************************************************)
NotCleaned == [t |-> "pending", v |-> 0, s |-> <<>>]

CleanAtRest == raw = PyNone /\ cleaned = NotCleaned

Realtime == profile = "realtime"
Secondary == profile = "secondary"

ScorerAtRest ==
    /\ racing_history = <<>> /\ race_info = NoInfo /\ draw_statistics = NoStats
    /\ now = 0 /\ result = NoResult /\ previous = NoResult

StabilityAtRest == rival_history = <<>> /\ stability = -1 /\ rival_stability = -1

FitnessAtRest ==
    horse_metrics = EmptyMetrics /\ draw_stats = NoDrawStats /\ fitness = NoFitness

LoopAtRest ==
    /\ pc = "rest" /\ selected_race_num = 0 /\ draw_stats_dict = NoStats
    /\ horses = <<>> /\ idx = 0 /\ scored_horses = <<>> /\ errors = <<>>

PredictAtRest ==
    /\ total_runners = 12 /\ race_horses_data = <<>> /\ pidx = 0
    /\ predictions = <<>> /\ pred_errors = <<>>

PaceAtRest == pace_predictions = <<>> /\ current_total = 12 /\ diag = NoDiagnosis

cleanVars == <<profile, raw, cleaned>>
scorerVars == <<racing_history, race_info, draw_statistics, now, result, previous>>
stabilityVars == <<rival_history, stability, rival_stability>>
fitnessVars == <<horse_metrics, draw_stats, fitness>>
loopVars == <<pc, selected_race_num, draw_stats_dict, horses, idx, scored_horses, errors>>
predictVars == <<total_runners, race_horses_data, pidx, predictions, pred_errors>>
paceVars == <<pace_predictions, current_total, diag>>

(***************************************************************************)
(* SpecClean: clean_int_field applied to one raw field value.              *)
(***************************************************************************)
RawValues ==
    LET TokenAlphabet == {"0", "1", "3", "D", "H", "d", "W", "V", "-", " ", "x"}
        Tokens == UNION {[1..n -> TokenAlphabet] : n \in 0..MaxTokLen}
        \* the markers as the result pages print them, and longer dead heats
        MarkerTokens ==
            { <<"N", "/", "A">>, <<"n", "a">>, <<"n", "u", "l", "l">>, <<"W", "R">>,
              <<"R", "R">>, <<"P", "U">>, <<"U", "R">>, <<"F", "E">>, <<"D", "S", "Q">>,
              <<" ", "d", "s", "q", " ">>, <<"D", "H", "1", "0">>, <<"W", "X">>,
              <<"1", ".", "5">>, <<"1", " ", "D", "H">> }
    IN
    {PyNone} \cup {PyInt(n) : n \in {0, 1, 7, 14, 99}}
             \cup {PyStr(t) : t \in Tokens \cup MarkerTokens}

InitClean ==
    /\ Realtime
    /\ raw \in RawValues /\ cleaned = NotCleaned
    /\ ScorerAtRest /\ StabilityAtRest /\ FitnessAtRest /\ LoopAtRest
    /\ PredictAtRest /\ PaceAtRest

\* one call of clean_int_field
CleanField ==
    /\ cleaned = NotCleaned
    /\ cleaned' = clean_int_field(raw)
    /\ UNCHANGED <<profile, raw, scorerVars, stabilityVars, fitnessVars, loopVars, predictVars, paceVars>>

SpecClean == InitClean /\ [][CleanField]_vars

(***************************************************************************)
(* SpecScorer: calculate_scores called, and called again, on fixed         *)
(* arguments while the wall clock runs.                                    *)
(***************************************************************************)
\* race numbers are 1-based; an absent race number cleans to 99
InitScorer ==
    /\ \/ /\ racing_history \in Histories(1)
          /\ race_info \in {Info(n, b, PyStr(<<"1", "2", "0", "0">>), Txt1("g")) :
                               n \in {PyInt(1), PyInt(2), Txt1("1"), PyNone},
                               b \in {PyInt(3), Txt1("7"), PyNone}}
          /\ draw_statistics \in StatsValues
       \/ /\ racing_history \in Histories(MaxHist) \cup LongHistories
          /\ race_info \in {Info(PyInt(1), PyInt(3), PyInt(1200), Txt1("g")),
                           Info(PyInt(1), PyInt(7), PyInt(1650), Txt1("y"))}
          /\ draw_statistics \in {NoStats, Stats(TRUE, PyInt(1), 1200, <<"g">>, RowsFull)}
       \* personal samples from none to more than 8 against population rows
       \* of every sample size around the reliability limit of 20
       \/ /\ racing_history \in Histories(1) \cup LongHistories
          /\ race_info \in {Info(PyInt(1), PyInt(3), PyInt(1200), Txt1("g")),
                           Info(PyInt(1), PyInt(7), PyInt(1650), Txt1("y"))}
          /\ draw_statistics \in
                {Stats(TRUE, PyInt(1), 1200, <<"g">>,
                       (3 :> Row(PyInt(rate), races_run))
                       @@ (7 :> Row(PyInt(rate), races_run))) :
                    rate \in {0, 39, 100}, races_run \in {0, 5, 10, 19, 20, 21, 100}}
    /\ now = 0 /\ result = NoResult /\ previous = NoResult
    /\ Realtime
    /\ CleanAtRest /\ StabilityAtRest /\ FitnessAtRest /\ LoopAtRest
    /\ PredictAtRest /\ PaceAtRest

\* a variant that hands back the caller's own dict instead of a copy
dict_alias(d) == [shared |-> TRUE, value |-> d]

\* d.copy(): a new dict with the same items, not shared with the caller
dict_copy(d) == [shared |-> FALSE, value |-> d]

\* one call of calculate_scores.  The cleaned fields are written to
\* race_info.copy() and to each record.copy(); the caller's own dicts take
\* the writes only if those are shared.  The name racing_history is rebound
\* to the new list cleaned_history, and draw_statistics is only read.
CalculateScores ==
    /\ Realtime
    /\ result' = calculate_scores(racing_history, race_info, draw_statistics, now)
    /\ previous' = result
    /\ race_info' =
          IF dict_copy(race_info).shared
          THEN [race_info EXCEPT !.barrier = clean_int_field(race_info.barrier),
                                 !.distance = clean_int_field(race_info.distance),
                                 !.race_num = clean_int_field(race_info.race_num)]
          ELSE race_info
    /\ racing_history' =
          [i \in 1..Len(racing_history) |->
              IF dict_copy(racing_history[i]).shared
              THEN CleanRecord(racing_history[i])
              ELSE racing_history[i]]
    /\ UNCHANGED <<draw_statistics, now, cleanVars,
                   stabilityVars, fitnessVars, loopVars, predictVars, paceVars>>

\* the wall clock advances
Tick ==
    /\ Realtime
    /\ now < MaxClock
    /\ now' = now + 1
    /\ UNCHANGED <<racing_history, race_info, draw_statistics, result, previous,
                   cleanVars, stabilityVars, fitnessVars, loopVars, predictVars, paceVars>>

NextScorer == CalculateScores \/ Tick

SpecScorer == InitScorer /\ [][NextScorer]_vars

(***************************************************************************)
(* SpecFitness: calc_leg_fitness_score on one competitor's metrics.        *)
(***************************************************************************)
MetricsValues ==
    \* None handed in for the metrics: horse_metrics.get raises AttributeError
    {[EmptyMetrics EXCEPT !.isNone = TRUE]}
    \cup {Metrics(o, r, w, d, v) :
            o \in {0, 333, 500, 1000}, r \in {0, 400, 500, 1000},
            w \in {0, 333, 400, 1000}, d \in {0, 250, 800}, v \in {-1, 500, 1000}}

DrawStatsValues == {NoDrawStats} \cup {DrawStats(w) : w \in {60, 120, 300}}

InitFitness ==
    /\ horse_metrics \in MetricsValues /\ draw_stats \in DrawStatsValues
    /\ fitness = NoFitness
    /\ Secondary
    /\ CleanAtRest /\ ScorerAtRest /\ StabilityAtRest /\ LoopAtRest /\ PredictAtRest /\ PaceAtRest

\* one call of calc_leg_fitness_score
CalcLegFitnessScore ==
    /\ Secondary
    /\ fitness' = calc_leg_fitness_score(horse_metrics, draw_stats)
    /\ UNCHANGED <<horse_metrics, draw_stats, cleanVars, scorerVars, stabilityVars,
                   loopVars, predictVars, paceVars>>

SpecFitness == InitFitness /\ [][CalcLegFitnessScore]_vars

(***************************************************************************)
(* SpecStability: the stability dimension of a history and of the same     *)
(* history with one finish outside the first three turned into a placing.  *)
(***************************************************************************)
InitStability ==
    /\ racing_history \in Histories(MaxHist)
    /\ rival_history = racing_history
    /\ stability = -1 /\ rival_stability = -1
    /\ race_info = NoInfo /\ draw_statistics = NoStats
    /\ now = 0 /\ result = NoResult /\ previous = NoResult
    /\ Realtime
    /\ CleanAtRest /\ FitnessAtRest /\ LoopAtRest /\ PredictAtRest /\ PaceAtRest

\* one finish outside positions 1-3 becomes a finish in position p
RaisePlacement ==
    /\ rival_history = racing_history /\ stability = -1
    /\ \E i \in 1..Len(racing_history), p \in 1..3 :
          /\ CleanInt(racing_history[i].position) > 3
          /\ rival_history' = [racing_history EXCEPT ![i].position = PyInt(p)]
    /\ UNCHANGED <<stability, rival_stability, scorerVars, cleanVars, fitnessVars,
                   loopVars, predictVars, paceVars>>

\* _calculate_stability_score on both histories, cleaned as calculate_scores does
ScoreStability ==
    /\ rival_history # racing_history /\ stability = -1
    /\ stability' = _calculate_stability_score(CleanHistory(racing_history)).score
    /\ rival_stability' = _calculate_stability_score(CleanHistory(rival_history)).score
    /\ UNCHANGED <<rival_history, scorerVars, cleanVars, fitnessVars, loopVars,
                   predictVars, paceVars>>

NextStability == RaisePlacement \/ ScoreStability

SpecStability == InitStability /\ [][NextStability]_vars

(***************************************************************************)
(* SpecScoring: both scoring profiles, each called on its own inputs.      *)
(***************************************************************************)
InitScoring ==
    \/ InitScorer
    \/ InitFitness

NextScoring == CalculateScores \/ Tick \/ CalcLegFitnessScore

SpecScoring == InitScoring /\ [][NextScoring]_vars

(***************************************************************************)
(* SpecRacecard: the racecard page loads the draw statistic of the         *)
(* selected race and scores the field, one competitor per step.            *)
(* A horse is [horse_name, barrier, racing_history].                       *)
(***************************************************************************)
Horse(horse_name, barrier, history) ==
    [horse_name |-> horse_name, barrier |-> barrier, racing_history |-> history]

HorsePool ==
    { Horse("A", PyInt(3),
            << Rec(Txt1("1"), Txt1("3"), PyStr(<<"1", "2", "0", "0">>), <<"g">>, Txt1("0")),
               Rec(Txt1("2"), PyInt(3), PyInt(1200), <<"g", "/", "k">>, PyInt(3)) >>),
      Horse("B", Txt1("7"), <<>>),
      Horse("C", PyNone,
            << Rec(PyStr(<<"1", "2">>), PyInt(7), PyInt(1650), <<"y", "@">>, Txt1("t")) >>),
      Horse("D", PyInt(3),
            << Rec(PyStr(<<"W", "V">>), PyStr(<<>>), PyInt(1200), <<>>, PyStr(<<>>)) >>),
      Horse("E", PyInt(7),
            << Rec(PyInt(5), Txt1("3"), PyInt(1200), <<"g", "@">>, PyNone) >>) }

\* fields of up to MaxField different horses
Fields ==
    {f \in UNION {[1..n -> HorsePool] : n \in 1..MaxField} :
        \A i, j \in 1..Len(f) : i # j => f[i] # f[j]}

\* what get_all_races_for_date returns: race number -> that race's rows
get_all_races_for_date ==
    LET RaceData(distance, going, rows) ==
            [distance |-> distance, going |-> going, rows |-> rows]
    IN  { [n \in {} |-> RaceData(0, <<>>, RowsEmpty)],
          (1 :> RaceData(1200, <<"g">>, RowsFull)),
          (1 :> RaceData(1200, <<"g">>, RowsNull)),
          (1 :> RaceData(1200, <<"g">>, RowsFull)) @@ (2 :> RaceData(1650, <<"y">>, RowsNull)) }

InitRacecard ==
    /\ pc = "load" /\ selected_race_num \in {1, 2}
    /\ draw_stats_dict = NoStats
    /\ horses \in Fields
    /\ idx = 0 /\ scored_horses = <<>> /\ errors = <<>>
    /\ Realtime
    /\ CleanAtRest /\ ScorerAtRest /\ StabilityAtRest /\ FitnessAtRest
    /\ PredictAtRest /\ PaceAtRest

\* Step 1: the statistic of the selected race, stamped with its race number
LoadDrawStatistics ==
    /\ pc = "load"
    /\ \E all_races \in get_all_races_for_date :
          draw_stats_dict' =
              IF selected_race_num \in DOMAIN all_races
              THEN LET current_race_data == all_races[selected_race_num]
                   IN  Stats(TRUE, PyInt(selected_race_num),
                             current_race_data.distance, current_race_data.going,
                             current_race_data.rows)
              ELSE NoStats
    /\ pc' = "score"
    /\ UNCHANGED <<selected_race_num, horses, idx, scored_horses, errors,
                   cleanVars, scorerVars, stabilityVars, fitnessVars, predictVars, paceVars>>

\* a variant of the handlers that ends the loop at the first failure
NextIndexAbort(i, n) == n

\* both except handlers end in `continue`: on to the next horse
NextIndex(i, n) == i + 1

horse_race_info(horse) ==
    LET \* Step 2: the page's race_info after the distance is cleaned
        race_info_page == [distance |-> PyInt(1200), going |-> Txt1("g")]
    IN  Info(PyInt(selected_race_num), horse.barrier, race_info_page.distance,
             race_info_page.going)

\* Step 4: one pass of the loop body
ScoreHorse ==
    /\ pc = "score" /\ idx < Len(horses)
    /\ \E scores \in {calculate_scores(horses[idx + 1].racing_history,
                                        horse_race_info(horses[idx + 1]),
                                        draw_stats_dict, now)} :
       LET horse == horses[idx + 1]
       IN  IF scores.kind = "scorecard"
           THEN /\ scored_horses' =
                       Append(scored_horses,
                              [horse_name |-> horse.horse_name, scores |-> scores])
                /\ idx' = idx + 1
                /\ UNCHANGED errors
           ELSE /\ errors' = Append(errors, [horse |-> horse.horse_name,
                                             error |-> scores.kind])
                /\ idx' = NextIndex(idx, Len(horses))
                /\ UNCHANGED scored_horses
    /\ UNCHANGED <<pc, selected_race_num, draw_stats_dict, horses,
                   cleanVars, scorerVars, stabilityVars, fitnessVars, predictVars, paceVars>>

\* list.sort(key=total_score, reverse=True): stable, highest total first
RECURSIVE SortByTotalScore(_)
SortByTotalScore(xs) ==
    IF xs = <<>> THEN <<>>
    ELSE LET rest == SortByTotalScore(SubSeq(xs, 1, Len(xs) - 1))
             x == xs[Len(xs)]
             before == SelectSeq(rest, LAMBDA y : y.scores.total_score >= x.scores.total_score)
             after == SelectSeq(rest, LAMBDA y : y.scores.total_score < x.scores.total_score)
         IN  before \o <<x>> \o after

\* Step 5: the loop is over; the scored horses are ranked
FinishScoring ==
    /\ pc = "score" /\ idx >= Len(horses)
    /\ scored_horses' = SortByTotalScore(scored_horses)
    /\ pc' = "done"
    /\ UNCHANGED <<selected_race_num, draw_stats_dict, horses, idx, errors,
                   cleanVars, scorerVars, stabilityVars, fitnessVars, predictVars, paceVars>>

NextRacecard == LoadDrawStatistics \/ ScoreHorse \/ FinishScoring

SpecRacecard == InitRacecard /\ [][NextRacecard]_vars

(***************************************************************************)
(* SpecFaults: a failure while scoring, under either profile.              *)
(***************************************************************************)
InitFaults ==
    \/ InitRacecard
    \/ InitFitness

NextFaults == LoadDrawStatistics \/ ScoreHorse \/ FinishScoring \/ CalcLegFitnessScore

SpecFaults == InitFaults /\ [][NextFaults]_vars

(***************************************************************************)
(* SpecPredict: the prediction page classifies the field, one competitor   *)
(* per step.  A horse is [horse_number, horse_name, barrier, rating,       *)
(* racing_history]; a history record is [distance, going, date] with the   *)
(* running path in the going cell, as the history parser files it.         *)
(***************************************************************************)
Run(distance, going, date) == [distance |-> distance, going |-> going, date |-> date]

Runner(horse_number, horse_name, barrier, rating, history) ==
    [horse_number |-> horse_number, horse_name |-> horse_name,
     barrier |-> barrier, rating |-> rating, racing_history |-> history]

RunnerPool ==
    LET RunLed == Run(PyInt(1200), PyStr(<<"1", " ", "1", " ", "5">>), 3)
        RunBehind == Run(PyStr(<<"1", "2", "0", "0">>), PyStr(<<"1", "2", "-", "1", "1", "-", "9">>), 2)
        RunMid == Run(PyInt(1000), PyStr(<<"7", ",", "7", ",", "8">>), 4)
        RunNoPath == Run(PyInt(1650), PyStr(<<"-">>), 1)
        RunBadPath == Run(PyNone, PyStr(<<"W", "V">>), 5)
        RunAbsentPath == Run(PyInt(1200), PyNone, 6)
    IN
    { Runner(PyInt(1), "A", PyInt(2), PyStr(<<"8", "5">>), <<>>),
      Runner(PyInt(2), "B", PyInt(10), PyInt(60), <<RunLed, RunBehind, RunMid>>),
      Runner(PyStr(<<"3">>), "C", PyInt(5), PyNone, <<RunLed, RunNoPath>>),
      Runner(PyInt(4), "D", PyInt(1), PyInt(70), <<RunNoPath, RunBadPath>>),
      Runner(PyNone, "E", PyNone, PyInt(70), <<RunBehind, RunAbsentPath, RunMid>>),
      Runner(PyInt(6), "F", PyStr(<<"1", "2">>), PyNone, <<>>),
      Runner(PyInt(7), "G", PyInt(7), PyInt(90), <<RunAbsentPath>>) }

RunnerFields ==
    {f \in UNION {[1..n -> RunnerPool] : n \in 1..MaxField} :
        \A i, j \in 1..Len(f) : i # j => f[i] # f[j]}

InitPredict ==
    /\ total_runners \in {6, 12}
    /\ race_horses_data \in RunnerFields
    /\ pidx = 0 /\ predictions = <<>> /\ pred_errors = <<>>
    /\ Realtime
    /\ CleanAtRest /\ ScorerAtRest /\ StabilityAtRest /\ FitnessAtRest
    /\ LoopAtRest /\ PaceAtRest

\* the page's conversion of one history record; str(rec.get('going', ''))
ConvertRecord(rec) ==
    [distance |-> safe_int_convert(rec.distance, 1800),
     running_path |-> IF rec.going.t = "none" THEN <<>> ELSE rec.going.s,
     date |-> rec.date]

\* what the loop body obtains for one horse: a classification or None
PredictionFor(horse, total, rounding) ==
    LET draw == safe_int_convert(horse.barrier, 0)
        history == horse.racing_history
        converted == [i \in 1..Len(history) |-> ConvertRecord(history[i])]
    IN  IF history = <<>>
        THEN predict_new_horse_running_style(
                 [horse_name |-> horse.horse_name, draw |-> draw,
                  rating |-> safe_int_convert(horse.rating, 70)], total, rounding)
        ELSE predict_running_style(
                 [horse_name |-> horse.horse_name, draw |-> draw,
                  distance |-> converted[1].distance, history |-> converted], total,
                 rounding)

\* one pass of the loop body
PredictHorse ==
    /\ pidx < Len(race_horses_data)
    /\ \E rounding \in {"down", "up"} :
       LET horse == race_horses_data[pidx + 1]
           horse_num == safe_int_convert(horse.horse_number, pidx + 1)
           pred == PredictionFor(horse, total_runners, rounding)
       IN  IF ~pred.isNone
           THEN /\ predictions' = Append(predictions, pred)
                /\ UNCHANGED pred_errors
           ELSE /\ pred_errors' = Append(pred_errors, horse_num)
                /\ UNCHANGED predictions
    /\ pidx' = pidx + 1
    /\ UNCHANGED <<total_runners, race_horses_data, cleanVars, scorerVars,
                   stabilityVars, fitnessVars, loopVars, paceVars>>

SpecPredict == InitPredict /\ [][PredictHorse]_vars

(***************************************************************************)
(* SpecBoundary: the prediction page on full fields of the smallest and    *)
(* the largest size, every draw taken once, followed by the page's fused   *)
(* pace diagnosis of the classifications.                                  *)
(***************************************************************************)
BoundarySizes == {6, 14}

\* full fields, every draw taken once: horses with one earlier run led from
\* position p, horses without history rated r, or the two alternating
BoundaryFields(n) ==
    LET digit(k) == CHOOSE c \in Digits : DigitVal(c) = k
        \* the running-path cell of a run led from position p (p < 100)
        PathFrom(p) ==
            (IF p >= 10 THEN <<digit(p \div 10)>> ELSE <<>>)
            \o <<digit(p % 10), " ", "5", " ", "5">>
        Experienced(d, p) ==
            Runner(PyInt(d), "X", PyInt(d), PyInt(70),
                   <<Run(PyInt(1200), PyStr(PathFrom(p)), 1)>>)
        Newcomer(d, r) == Runner(PyInt(d), "X", PyInt(d), PyInt(r), <<>>)
        BoundaryRatings == {40, 70, 100}
    IN  {[d \in 1..n |-> Experienced(d, p)] : p \in 1..n}
        \cup {[d \in 1..n |-> Newcomer(d, r)] : r \in BoundaryRatings}
        \cup {[d \in 1..n |-> IF d % 2 = 1 THEN Experienced(d, p) ELSE Newcomer(d, 70)] :
                 p \in 1..n}

InitBoundary ==
    /\ total_runners \in BoundarySizes
    /\ race_horses_data \in BoundaryFields(total_runners)
    /\ pidx = 0 /\ predictions = <<>> /\ pred_errors = <<>>
    /\ Realtime
    /\ CleanAtRest /\ ScorerAtRest /\ StabilityAtRest /\ FitnessAtRest
    /\ LoopAtRest /\ PaceAtRest

\* Part 3 of the page: the fused diagnosis of the stored classifications
DiagnosePace ==
    LET \* a stored classification as the pace predictor reads it: the page
        \* keeps no draw with it
        stored == [i \in 1..Len(predictions) |->
                      Pred(predictions[i].running_style,
                           PyInt(predictions[i].adjusted_position), PyNone)]
    IN
    /\ pidx = Len(race_horses_data) /\ predictions # <<>>
    /\ diag = NoDiagnosis
    /\ pace_predictions' = stored
    /\ current_total' = Len(predictions)
    /\ diag' = predict_pace_hybrid_v1_confidence_weighted(stored, Len(predictions))
    /\ UNCHANGED <<predictVars, cleanVars, scorerVars, stabilityVars, fitnessVars,
                   loopVars>>

NextBoundary == PredictHorse \/ DiagnosePace

SpecBoundary == InitBoundary /\ [][NextBoundary]_vars

(***************************************************************************)
(* SpecFusion: predict_pace_hybrid_v1_confidence_weighted called on a list *)
(* of predictions, with the field size the page passes (the length of the  *)
(* list) or the default of 12.                                             *)
(***************************************************************************)
\* fi front runners drawn inside, fo drawn outside, fs that carry their style
\* only, m mid runners and b back runners
PaceField(fi, fo, fs, m, b) ==
    LET FrontInside == Pred("FRONT", PyInt(200), PyInt(3))
        FrontOutside == Pred("FRONT", PyInt(200), PyInt(10))
        FrontStyleOnly == Pred("FRONT", PyNone, PyNone)
        MidRunner == Pred("MID", PyInt(380), PyNone)
        BackRunner == Pred("BACK", PyInt(1000), PyInt(11))
    IN  Repeat(FrontInside, fi) \o Repeat(FrontOutside, fo) \o Repeat(FrontStyleOnly, fs)
        \o Repeat(MidRunner, m) \o Repeat(BackRunner, b)

PaceFields ==
    UNION {UNION {UNION {UNION {
        {PaceField(fi, fo, fs, m, b) : b \in 0..(MaxRunners - fi - fo - fs - m)} :
            m \in 0..(MaxRunners - fi - fo - fs)} :
            fs \in 0..(MaxRunners - fi - fo)} :
            fo \in 0..(MaxRunners - fi)} :
            fi \in 0..MaxRunners}

InitFusion ==
    /\ pace_predictions \in PaceFields
    /\ current_total \in {Len(pace_predictions), 12}
    /\ diag = NoDiagnosis
    /\ Realtime
    /\ CleanAtRest /\ ScorerAtRest /\ StabilityAtRest /\ FitnessAtRest
    /\ LoopAtRest /\ PredictAtRest

\* one call of predict_pace_hybrid_v1_confidence_weighted
FusePace ==
    /\ diag = NoDiagnosis
    /\ pace_predictions \in PaceFields
    /\ diag' = predict_pace_hybrid_v1_confidence_weighted(pace_predictions, current_total)
    /\ UNCHANGED <<pace_predictions, current_total, predictVars, cleanVars, scorerVars,
                   stabilityVars, fitnessVars, loopVars>>

SpecFusion == InitFusion /\ [][FusePace]_vars

(***************************************************************************)
(* Properties of calculate_scores (SpecScorer).                            *)
(***************************************************************************)
\* the race number a value denotes: the integer itself, or the number its
\* text spells
RaceNumberOf(value) == IF value.t = "int" THEN value.v ELSE DecimalValue(value.s)

Called == result.kind # "none"

\* draw_statistics carries a race number and it is not the race being scored
KeyedToOtherRace ==
    /\ ~draw_statistics.isNone /\ draw_statistics.has_race_num
    /\ race_info.race_num # PyNone
    /\ RaceNumberOf(race_info.race_num) # RaceNumberOf(draw_statistics.race_num)

\* draw_statistics carries the race number of the race being scored
KeyedToThisRace ==
    /\ ~draw_statistics.isNone /\ draw_statistics.has_race_num
    /\ race_info.race_num # PyNone
    /\ RaceNumberOf(race_info.race_num) = RaceNumberOf(draw_statistics.race_num)

\* C1: whenever calculate_scores is called with a draw statistic keyed to a
\* race number other than that of the race being scored, the call raises the
\* race-mismatch ValueError: no barrier score is returned and the statistic
\* is not consumed.
C1_MismatchRaises ==
    (Called /\ KeyedToOtherRace) =>
        /\ result.kind = "ValueError"
        /\ ~result.stat_consumed
        /\ result.barrier = NoResult.barrier

\* C1's case: a statistic of another race that has a row for the runner's
\* draw was handed in, and the call raised
C1_Witness ==
    /\ KeyedToOtherRace
    /\ HasRow(draw_statistics, CleanInt(race_info.barrier))
    /\ result.kind = "ValueError"

\* C2: a draw statistic without its race number (_race_num) is never
\* consumed: the barrier dimension's population score is not taken from it.
C2_UnkeyedNeverConsumed ==
    (Called /\ ~draw_statistics.isNone /\ ~draw_statistics.has_race_num) =>
        ~result.stat_consumed

\* C3: a draw statistic of the right race number whose distance disagrees
\* with the race being scored is rejected with the race-mismatch ValueError.
C3_WholeKeyValidated ==
    (/\ Called /\ KeyedToThisRace
     /\ draw_statistics.distance # CleanInt(race_info.distance)) =>
        result.kind = "ValueError"

\* C7: two calls of calculate_scores on the same arguments return the same
\* scorecard, field for field.
C7_SameInputsSameOutput ==
    (result.kind = "scorecard" /\ previous.kind = "scorecard") =>
        result = previous

(***************************************************************************)
(* Properties of the racecard scoring loop (SpecRacecard, SpecFaults).     *)
(***************************************************************************)
LoopDone == pc = "done"

\* what scoring this horse alone yields, whatever else is in the field
OwnOutcome(horse) ==
    calculate_scores(horse.racing_history, horse_race_info(horse),
                     draw_stats_dict, now)

OwnScoringFails(horse) == OwnOutcome(horse).kind # "scorecard"

HasScorecard(horse) ==
    \E j \in 1..Len(scored_horses) :
        /\ scored_horses[j].horse_name = horse.horse_name
        /\ scored_horses[j].scores = OwnOutcome(horse)

\* C4: after the loop every horse whose own scoring does not fail has its
\* scorecard, wherever the failing horses stand in the field.
C4_FailuresIsolated ==
    LoopDone =>
        \A i \in 1..Len(horses) :
            ~OwnScoringFails(horses[i]) => HasScorecard(horses[i])

\* C4's case: a horse failed, and horses before it and after it in the
\* field were scored
C4_Witness ==
    /\ LoopDone
    /\ \E i, j, k \in 1..Len(horses) :
          /\ i < j /\ j < k
          /\ OwnScoringFails(horses[j])
          /\ \E e \in 1..Len(errors) : errors[e].horse = horses[j].horse_name
          /\ HasScorecard(horses[i]) /\ HasScorecard(horses[k])

\* a fully neutral realtime scorecard: six dimensions at 0.5, grade C, the
\* lowest of A+ ... C
NeutralScores(scores) ==
    /\ scores.barrier = 500 /\ scores.distance = 500 /\ scores.going = 500
    /\ scores.stability = 500 /\ scores.trend = 500 /\ scores.consistency = 500
    /\ scores.grade = "C"

\* a fully neutral secondary scorecard: four dimensions at 0.5, grade E,
\* the lowest of A ... E
NeutralFitness(f) ==
    /\ f.dimension_a = 500 /\ f.dimension_b = 500
    /\ f.dimension_c = 500 /\ f.dimension_d = 500
    /\ f.grade = "E"

\* C5: a competitor whose scoring failed unexpectedly receives a fully
\* neutral scorecard (every dimension 0.5, the lowest grade of the ladder),
\* from the realtime scorer and from the secondary calculator alike.
C5_FailureYieldsNeutralCard ==
    /\ LoopDone =>
          \A i \in 1..Len(horses) :
              OwnScoringFails(horses[i]) =>
                  \E j \in 1..Len(scored_horses) :
                      /\ scored_horses[j].horse_name = horses[i].horse_name
                      /\ NeutralScores(scored_horses[j].scores)
    /\ fitness.kind = "default" => NeutralFitness(fitness)

(***************************************************************************)
(* Properties of the prediction loop (SpecPredict).                        *)
(***************************************************************************)
PredictDone == pidx = Len(race_horses_data) /\ race_horses_data # <<>>

\* how many records of the horse's history hold a running path that opens
\* with a number
ValidEarlyPositions(horse) ==
    Cardinality({i \in 1..Len(horse.racing_history) :
        LET g == horse.racing_history[i].going
        IN  /\ g.t = "str" /\ g.s # <<>>
            /\ g.s[1] \in Digits})

Classified(horse) ==
    \E j \in 1..Len(predictions) : predictions[j].horse_name = horse.horse_name

HistoryBased(horse) ==
    \E j \in 1..Len(predictions) :
        /\ predictions[j].horse_name = horse.horse_name
        /\ ~predictions[j].is_new_horse

\* C10: after the prediction loop every competitor has a classification,
\* and it is the history-based one exactly when the horse has at least 3
\* valid early positions; every other horse has the fallback one.
C10_EveryHorseClassified ==
    PredictDone =>
        \A i \in 1..Len(race_horses_data) :
            LET horse == race_horses_data[i]
            IN  /\ Classified(horse)
                /\ HistoryBased(horse) <=> ValidEarlyPositions(horse) >= 3

(***************************************************************************)
(* Properties of both scoring profiles (SpecScoring).                      *)
(***************************************************************************)
InUnit(x) == 0 <= x /\ x <= 1000

\* C6: every returned scorecard has each dimension score and the total in
\* [0, 1]: six dimensions for calculate_scores, four for
\* calc_leg_fitness_score.
C6_ScoresInUnitInterval ==
    /\ result.kind = "scorecard" =>
          /\ InUnit(result.barrier) /\ InUnit(result.distance)
          /\ InUnit(result.going) /\ InUnit(result.stability)
          /\ InUnit(result.trend) /\ InUnit(result.consistency)
          /\ InUnit(result.total_score)
    /\ fitness.kind \in {"scorecard", "default"} =>
          /\ InUnit(fitness.dimension_a) /\ InUnit(fitness.dimension_b)
          /\ InUnit(fitness.dimension_c) /\ InUnit(fitness.dimension_d)
          /\ InUnit(fitness.total_score)

\* C6's case: the secondary profile scored a competitor whose raw
\* dimension A exceeds 1 and was clamped
C6_Witness ==
    /\ fitness.kind = "scorecard"
    /\ calc_dimension_a_unclamped(horse_metrics) > Unit
    /\ fitness.dimension_a = 1000

\* C16: the weights each profile uses for its total sum to 1.0: barrier
\* 0.20, distance 0.20, surface 0.10, stability 0.25, trend 0.15 and
\* consistency 0.10 in calculate_scores, 0.30, 0.25, 0.25 and 0.20 in
\* calc_leg_fitness_score, and every scorecard's total is the sum of its
\* dimension scores under these weights (to the rounding of the scorecard).
C16_WeightsSumToOne ==
    /\ total_score_weights.barrier + total_score_weights.distance
          + total_score_weights.going + total_score_weights.stability
          + total_score_weights.trend + total_score_weights.consistency = 100
    /\ WEIGHTS.dimension_a + WEIGHTS.dimension_b + WEIGHTS.dimension_c
          + WEIGHTS.dimension_d = 100
    /\ result.kind = "scorecard"
          => Abs(100 * result.total_score
                 - (20 * result.barrier + 20 * result.distance + 10 * result.going
                    + 25 * result.stability + 15 * result.trend
                    + 10 * result.consistency)) <= 100
    /\ fitness.kind = "scorecard"
          => Abs(100 * fitness.total_score
                 - (30 * fitness.dimension_a + 25 * fitness.dimension_b
                    + 25 * fitness.dimension_c + 20 * fitness.dimension_d)) <= 100

\* a realtime scorecard whose six dimensions differ from one another, so
\* that the total depends on each weight
C16_Witness ==
    /\ result.kind = "scorecard"
    /\ Cardinality({result.barrier, result.distance, result.going, result.stability,
                    result.trend, result.consistency}) = 6
    /\ result.total_score > 0

(***************************************************************************)
(* Properties of the stability dimension (SpecStability).                  *)
(***************************************************************************)
Scored == stability # -1

\* the finish that RaisePlacement changed, and what it became
Raised1(p) ==
    \E i \in 1..Len(racing_history) :
        /\ rival_history = [racing_history EXCEPT ![i].position = PyInt(p)]
        /\ CleanInt(racing_history[i].position) > 3

\* C8: a history with one more finish in positions 1-3, everything else
\* the same, never has a lower stability score.
C8_MorePlacesNeverLower == Scored => rival_stability >= stability

\* C8 (amended): a history with one finish outside positions 1-3 turned
\* into a win, everything else the same, never has a lower stability score.
C8_MoreWinsNeverLower == (Scored /\ Raised1(1)) => rival_stability >= stability

\* C8's case: an unplaced finish became a win and the score rose
C8_Witness == Scored /\ Raised1(1) /\ rival_stability > stability

(***************************************************************************)
(* Properties of clean_int_field (SpecClean).                              *)
(***************************************************************************)
IsDigits(s) == s # <<>> /\ \A i \in 1..Len(s) : s[i] \in Digits

\* text with the blanks at both ends dropped, read off the token itself
Core(s) ==
    LET keep == {i \in 1..Len(s) : s[i] # " "}
    IN  IF keep = {} THEN <<>>
        ELSE SubSeq(s, CHOOSE i \in keep : \A j \in keep : i <= j,
                       CHOOSE i \in keep : \A j \in keep : i >= j)

\* numeric text: an integer written out, blanks around it allowed
IsNumberText(s) ==
    LET c == Core(s)
    IN  IsDigits(c) \/ (c # <<>> /\ c[1] = "-" /\ IsDigits(Drop(c, 1)))

NumberOf(s) ==
    LET c == Core(s)
    IN  IF c[1] = "-" THEN 0 - DecimalValue(Drop(c, 1)) ELSE DecimalValue(c)

\* a dead-heat notation: DH (either case) and then the rank
IsDeadHeat(s) ==
    /\ Len(s) >= 3
    /\ s[1] \in {"D", "d"} /\ s[2] \in {"H", "h"}
    /\ IsNumberText(Drop(s, 2))

CleanedDone == cleaned # NotCleaned

\* C9: clean_int_field returns an integer for every raw value; an absent
\* value, an empty string, a sentinel token and any token that is not a
\* number map to 99; DH + rank maps to the rank; numeric text maps to its
\* number.
C9_CleanIsTotal ==
    CleanedDone =>
        /\ cleaned.t = "int"
        /\ raw.t = "none" => cleaned.v = 99
        /\ raw.t = "int" => cleaned.v = raw.v
        /\ raw.t = "str" =>
              LET c == Core(raw.s)
              IN  IF IsNumberText(c) THEN cleaned.v = NumberOf(c)
                  ELSE IF IsDeadHeat(c) THEN cleaned.v = NumberOf(Drop(c, 2))
                  ELSE cleaned.v = 99

\* C9's case: a dead-heat notation was cleaned to its rank
C9_Witness ==
    /\ CleanedDone /\ raw.t = "str" /\ IsDeadHeat(Core(raw.s))
    /\ cleaned = PyInt(NumberOf(Drop(Core(raw.s), 2)))
    /\ cleaned.v \in 1..14

(***************************************************************************)
(* Properties of the barrier dimension (SpecScorer).                       *)
(***************************************************************************)
\* the draw of the race being scored, as the scorer cleans it
CurrentDraw == CleanInt(race_info.barrier)

\* the number of history records run from the draw of the race being scored
PersonalSamples ==
    Cardinality({i \in 1..Len(racing_history) :
                    CleanInt(racing_history[i].barrier) = CurrentDraw})

\* the call returned a scorecard for a race with a draw
BarrierScored == Called /\ result.kind = "scorecard" /\ CurrentDraw # 0

\* C13: with n personal samples at the draw of the race, the personal weight
\* of the barrier dimension is 0.8 for n >= 8, 0.3 + (n - 3) * 0.1 for n from
\* 3 to 7 (0.5 for n = 5) and 0.0 for n < 3, and for n < 3 the barrier score
\* is the population score alone.
C13_PersonalWeightSchedule ==
    BarrierScored
        => LET n == PersonalSamples
           IN  /\ result.details.barrier_races = n
               /\ n >= 8 => result.details.personal_weight = 800
               /\ (n >= 3 /\ n <= 7)
                      => result.details.personal_weight = 300 + (n - 3) * 100
               /\ n = 5 => result.details.personal_weight = 500
               /\ n < 3 => /\ result.details.personal_weight = 0
                           /\ result.details.final_score = result.details.stat_score
                           /\ result.barrier = Round3(result.details.stat_score)

\* five samples at the draw blended half and half with a population row
C13_Witness ==
    /\ BarrierScored /\ PersonalSamples = 5
    /\ result.details.personal_weight = 500
    /\ result.stat_consumed
    /\ result.details.final_score # result.details.stat_score

\* the population row of the draw of the race, when the statistic has one
\* with a rate
HasPopulationRow ==
    /\ ~draw_statistics.isNone /\ CurrentDraw \in DOMAIN draw_statistics.rows
    /\ draw_statistics.rows[CurrentDraw].top3_rate.t = "int"

\* the raw population score top3_rate * 0.6 + 0.35, in millionths
RawPopulationScore == draw_statistics.rows[CurrentDraw].top3_rate.v * 6000 + 350000

\* C14: a population row of sample size s below 20 is used as
\* raw * (s / 20) + 0.5 * (1 - s / 20): the midpoint of raw and 0.5 for
\* s = 10, exactly 0.5 for s = 0; from s = 20 on the raw score is used
\* unchanged.
C14_PopulationShrink ==
    (BarrierScored /\ HasPopulationRow)
        => LET sample == draw_statistics.rows[CurrentDraw].races_run
               raw_score == RawPopulationScore
               used == result.details.stat_score
           IN  /\ sample < 20
                      => 20 * used = raw_score * sample + 500000 * (20 - sample)
               /\ sample = 10 => 2 * used = raw_score + 500000
               /\ sample = 0 => used = 500000
               /\ sample >= 20 => used = raw_score

\* a row of 10 runs with every runner placed: 0.95 pulled halfway to 0.5
C14_Witness ==
    /\ BarrierScored /\ HasPopulationRow
    /\ draw_statistics.rows[CurrentDraw].races_run = 10
    /\ RawPopulationScore = 950000
    /\ result.details.stat_score = 725000

(***************************************************************************)
(* Properties of the neutral defaults of calculate_scores (SpecScorer).    *)
(***************************************************************************)
\* the statistic handed in makes the call fail: it is keyed to a race other
\* than the one scored, or its row for the draw of the race has a NULL rate
StatisticFaults ==
    /\ ~draw_statistics.isNone
    /\ \/ /\ draw_statistics.has_race_num
          /\ \/ race_info.race_num = PyNone
             \/ RaceNumberOf(race_info.race_num)
                    # RaceNumberOf(draw_statistics.race_num)
       \/ /\ CurrentDraw \in DOMAIN draw_statistics.rows
          /\ draw_statistics.rows[CurrentDraw].top3_rate.t # "int"

\* no history record lies within 100 of the distance of the race
NoDistanceMatch ==
    \A i \in 1..Len(racing_history) :
        LET dist == CleanInt(racing_history[i].distance)
        IN  dist = 0 \/ Abs(dist - CleanInt(race_info.distance)) > 100

\* the race has a surface text and no history record's condition matches it
\* (either text contains the other once the ground suffix, blanks and case
\* are normalized)
NoSurfaceMatch ==
    /\ race_info.going.t = "str" /\ race_info.going.s # <<>>
    /\ \A i \in 1..Len(racing_history) :
          LET target == NormalizeGoing(race_info.going.s)
              own == NormalizeGoing(racing_history[i].condition)
          IN  ~Contains(own, target) /\ ~Contains(target, own)

C17_InputsNeverMutated ==
    [][/\ racing_history' = racing_history
       /\ race_info' = race_info
       /\ draw_statistics' = draw_statistics]_vars

\* after a call on a draw given as text and a history record whose fields
\* are text, all of which the call cleans to integers on its copies, the
\* caller still holds the text, and the statistic that was consumed
C17_Witness ==
    /\ Called /\ result.kind = "scorecard" /\ result.stat_consumed
    /\ race_info.barrier.t = "str"
    /\ \E i \in 1..Len(racing_history) :
          /\ racing_history[i].position.t = "str"
          /\ CleanRecord(racing_history[i]) # racing_history[i]

(***************************************************************************)
(* Properties of the classifier and the pace estimators on the boundary    *)
(* field sizes (SpecBoundary).                                             *)
(***************************************************************************)
StyleLabels == {"FRONT", "MID", "BACK"}

\* the label agrees with the adjusted position (hundredths) against the two
\* thresholds (tenths); a position exactly on a threshold may fall either way
LabelFits(pred, total) ==
    /\ pred.running_style = "FRONT"
          => pred.adjusted_position <= 10 * front_threshold(total)
    /\ pred.running_style = "BACK"
          => pred.adjusted_position >= 10 * back_threshold(total)
    /\ pred.running_style = "MID"
          => /\ pred.adjusted_position >= 10 * front_threshold(total)
             /\ pred.adjusted_position <= 10 * back_threshold(total)

\* C11: on fields of 6 and of 14, for every draw and every baseline
\* position, the history-based and the history-less classifier both return
\* one of FRONT, MID, BACK that fits the thresholds, the front threshold is
\* strictly below the back threshold, no horse is left to the errors list,
\* and neither pace estimator ends in its division-by-zero handler.
C11_BoundaryFieldsClassified ==
    /\ front_threshold(total_runners) < back_threshold(total_runners)
    /\ pred_errors = <<>> /\ Len(predictions) = pidx
    /\ \A i \in 1..Len(predictions) :
          /\ predictions[i].running_style \in StyleLabels
          /\ LabelFits(predictions[i], total_runners)
    /\ diag.status # "none"
          => /\ diag.status = "success"
             /\ diag.traditional.status = "ok"
             /\ diag.epp.status = "ok"

\* a field of 14 classified by both paths, a BACK among them, and diagnosed
C11_Witness ==
    /\ total_runners = 14 /\ Len(predictions) = 14
    /\ \E i \in 1..14 : predictions[i].running_style = "BACK"
                           /\ ~predictions[i].is_new_horse
    /\ \E i \in 1..14 : predictions[i].is_new_horse
    /\ diag.status = "success"

(***************************************************************************)
(* Properties of the pace estimators and their fusion (SpecFusion).        *)
(***************************************************************************)
\* a call of the fusion has returned; its traditional component is the
\* result of predict_pace_diagnostic on the same predictions
Diagnosed == diag.status = "success"

\* the style counts of the predictions handed in
StyleCounts(front, mid, back) ==
    LET distribution == get_runstyle_distribution(pace_predictions)
    IN  /\ distribution.FRONT = front /\ distribution.MID = mid
        /\ distribution.BACK = back

\* C12: for a field of 12 counted 7 FRONT / 3 MID / 2 BACK,
\* predict_pace_diagnostic selects FAST with a scaled distance near 0 (at
\* most 0.6, the distance the confidence formula turns into 90) and a
\* confidence of at least 90.
C12_SevenThreeTwoFastAbove90 ==
    (Diagnosed /\ StyleCounts(7, 3, 2))
        => /\ diag.traditional.pace_type = "FAST"
           /\ diag.traditional.min_distance <= 600
           /\ diag.traditional.confidence >= 900

\* the two methods' archetypes on the ordinal scale, in hundredths
OrdinalTraditional == _pace_type_to_value(diag.traditional.pace_type)
OrdinalEpp == _pace_type_to_value(diag.epp.pace_type)

\* C18: the fused archetype is the one whose ordinal point is nearest to
\* wA * valueA + wB * valueB, where valueA and valueB are the ordinal
\* values (1.0 .. 3.0) of the two methods' archetypes and the weights are
\* the confidences over their sum (0.5 / 0.5 when both are zero).
C18_FusesOrdinalValues ==
    Diagnosed =>
        LET confA == diag.traditional.confidence
            confB == diag.epp.confidence
            num == IF confA + confB > 0
                   THEN confA * OrdinalTraditional + confB * OrdinalEpp
                   ELSE OrdinalTraditional + OrdinalEpp
            den == IF confA + confB > 0 THEN confA + confB ELSE 2
        IN  \A k \in 1..Len(PaceTypes) :
               Abs(num - _pace_type_to_value(diag.pace_type) * den)
                   <= Abs(num - _pace_type_to_value(PaceTypes[k]) * den)

\* C19: the fused confidence follows the distance of the two methods'
\* ordinal values: below 0.5 the average of the confidences times 1.2,
\* capped at 95; below 1.0 the plain average; from 1.0 on the average
\* times 0.8.
C19_ConfidenceFromOrdinalDivergence ==
    Diagnosed =>
        LET total == diag.traditional.confidence + diag.epp.confidence
            ordinal_divergence == Abs(OrdinalTraditional - OrdinalEpp)
        IN  diag.confidence =
               IF ordinal_divergence < 50 THEN Min(95000, total * 60)
               ELSE IF ordinal_divergence < 100 THEN total * 50
               ELSE total * 40

\* the recommendation that the rule of the 15 points gives
FifteenPointRule ==
    IF diag.traditional.confidence > diag.epp.confidence + 150
    THEN "favor_traditional"
    ELSE IF diag.epp.confidence > diag.traditional.confidence + 150
    THEN "favor_epp"
    ELSE "divergent"

\* C20 as stated: every fused diagnosis recommends by the rule of the 15
\* points: favor the method whose confidence exceeds the other's by more
\* than 15, otherwise flag divergence.
C20_AlwaysFifteenPointRule == Diagnosed => diag.recommendation = FifteenPointRule

\* C20 as the code has it: a fused diagnosis that carries the divergence
\* warning recommends by the rule of the 15 points; one without the
\* warning reports the two methods as consistent, whatever their
\* confidences.
C20_RuleOnlyWhenDivergent ==
    Diagnosed =>
        diag.recommendation = IF diag.warning THEN FifteenPointRule ELSE "consistent"

C20_Witness ==
    /\ Diagnosed /\ diag.warning
    /\ diag.recommendation = "favor_traditional"

(***************************************************************************)
(* Properties of the data flow from the classifier to the pace estimators  *)
(* (SpecBoundary).                                                         *)
(***************************************************************************)
\* the page has classified every horse and diagnosed the field:
\* predictions[i] is then the classification of race_horses_data[i]
FieldDiagnosed ==
    /\ Diagnosed /\ pred_errors = <<>>
    /\ Len(predictions) = Len(race_horses_data)

\* the horses that the pressure index counts: adjusted position at or
\* below a third of the field
PressureHorses ==
    {i \in 1..Len(predictions) :
        3 * predictions[i].adjusted_position <= 100 * Len(predictions)}

\* those of them drawn in the outer band of the current race (the
\* estimator's band is draw 9 and wider)
OuterDrawn ==
    {i \in PressureHorses : safe_int_convert(race_horses_data[i].barrier, 0) >= 9}

\* C21: in the flow from the classifier to the pressure index, every horse
\* at or below a third of the field adds 1.5 when its draw in the current
\* race is in the outer band and 1.0 otherwise; the others add nothing.
C21_OuterDrawWeighsMore ==
    FieldDiagnosed =>
        diag.epp.pace_value =
            150 * Cardinality(OuterDrawn)
            + 100 * Cardinality(PressureHorses \ OuterDrawn)

(***************************************************************************)
(* SpecClassifier: the prediction page classifies a small field.  Either   *)
(* one horse whose history has up to MaxRuns runs at the race distance,    *)
(* some with a running path and some without, and possibly one run at a    *)
(* far distance, the runs with a path led from position 1 and from         *)
(* position hi in turn; or, for every field size from 6 to 14, two horses  *)
(* of the same kind at neighbouring draws: without history and rated       *)
(* alike, or with one run each led from the same position.                 *)
(***************************************************************************)
InitClassifier ==
    LET digit(k) == CHOOSE c \in Digits : DigitVal(c) = k
        PathFrom(q) ==
            (IF q >= 10 THEN <<digit(q \div 10)>> ELSE <<>>) \o <<digit(q % 10), " ", "5">>
        Led(i, hi) == Run(PyInt(1200), PyStr(PathFrom(IF i % 2 = 1 THEN 1 ELSE hi)), i)
        Blank == Run(PyInt(1200), PyStr(<<"-">>), 0)
        Far == Run(PyInt(2400), PyStr(<<"1", "2", " ", "9">>), 0)
        ConfidenceHistory(n_valid, n_blank, n_far, hi) ==
            [i \in 1..n_valid |-> Led(i, hi)] \o Repeat(Blank, n_blank)
            \o Repeat(Far, n_far)
        Newcomer(d, r) == Runner(PyInt(d), "N", PyInt(d), PyInt(r), <<>>)
        Experienced(d, q) ==
            Runner(PyInt(d), "X", PyInt(d), PyInt(70),
                   <<Run(PyInt(1200), PyStr(PathFrom(q)), 1)>>)
    IN
    /\ \/ /\ total_runners \in {6, 12}
          /\ \E n_valid \in 0..MaxRuns, n_far \in 0..1, hi \in {1, 4, 5, 6, 7, 8} :
                \E n_blank \in 0..(MaxRuns - n_valid) :
                   race_horses_data =
                       << Runner(PyInt(1), "A", PyInt(5), PyInt(70),
                                 ConfidenceHistory(n_valid, n_blank, n_far, hi)) >>
       \/ /\ total_runners \in 6..14
          /\ \E d \in 1..(total_runners - 1) :
                \/ \E r \in {10, 40, 65, 69, 70, 85, 100, 140} :
                      race_horses_data = <<Newcomer(d, r), Newcomer(d + 1, r)>>
                \/ \E q \in 1..total_runners :
                      race_horses_data = <<Experienced(d, q), Experienced(d + 1, q)>>
    /\ pidx = 0 /\ predictions = <<>> /\ pred_errors = <<>>
    /\ Realtime
    /\ CleanAtRest /\ ScorerAtRest /\ StabilityAtRest /\ FitnessAtRest
    /\ LoopAtRest /\ PaceAtRest

SpecClassifier == InitClassifier /\ [][PredictHorse]_vars

(***************************************************************************)
(* Properties of the classifier's confidence (SpecClassifier).             *)
(***************************************************************************)
\* the horse was classified from its history
ClassifiedFromHistory ==
    /\ PredictDone /\ Len(predictions) = 1
    /\ ~predictions[1].is_new_horse

\* the number of history entries that pass the distance filter
FilteredEntries ==
    LET history == race_horses_data[1].racing_history
        converted == [i \in 1..Len(history) |-> ConvertRecord(history[i])]
    IN  Len(_filter_history_by_distance(converted, converted[1].distance))

BaseConfidence ==
    IF FilteredEntries >= 6 THEN 85
    ELSE IF FilteredEntries >= 4 THEN 75
    ELSE IF FilteredEntries >= 3 THEN 65
    ELSE 50

\* the penalty of the standard deviation of the early positions:
\* n^2 * variance = n * sum of squares - square of the sum
SpreadPenalty ==
    LET xs == predictions[1].early_positions
        n == Len(xs)
        n2var == n * SumSeq([i \in 1..n |-> xs[i] * xs[i]]) - SumSeq(xs) * SumSeq(xs)
    IN  IF n2var > 9 * n * n THEN 15
        ELSE IF n2var > 4 * n * n THEN 10
        ELSE IF 4 * n2var > 9 * n * n THEN 5
        ELSE 0

FieldClassified ==
    /\ PredictDone /\ Len(predictions) = Len(race_horses_data)
    /\ \A i \in 1..Len(race_horses_data) : Len(race_horses_data[i].racing_history) <= 1

\* C23: for every field size, in the history-based and in the history-less
\* path, a horse is FRONT iff its adjusted position is at most 0.30 of the
\* field size, BACK iff it is over 0.70 of the field size, MID otherwise.
C23_ThresholdsScaleWithField ==
    FieldClassified =>
        \A i \in 1..Len(predictions) :
            predictions[i].running_style =
                IF predictions[i].adjusted_position <= 30 * total_runners THEN "FRONT"
                ELSE IF predictions[i].adjusted_position > 70 * total_runners THEN "BACK"
                ELSE "MID"

\* the draw of horse i in the current race
DrawOfHorse(i) == safe_int_convert(race_horses_data[i].barrier, 0)

\* the horses whose prediction shows the draw adjustment alone: those
\* classified from one run, and those without history rated 70
ShowsDrawAdjustment(i) ==
    \/ race_horses_data[i].racing_history # <<>>
    \/ race_horses_data[i].rating = PyInt(70)

\* the draw adjustment in tenths of a position, read off the prediction:
\* adjusted position minus early position, or minus the field midpoint
SeenDrawAdjustment(i) ==
    IF race_horses_data[i].racing_history # <<>>
    THEN predictions[i].adjusted_position \div 10 - 10 * predictions[i].early_positions[1]
    ELSE predictions[i].adjusted_position \div 10 - 5 * (total_runners + 1)

\* C24: the draw adjustment takes the five band values only, is 0 exactly
\* within 1 of the midpoint (fieldSize + 1) / 2, negative inside of that
\* band and positive outside of it, never decreases as the draw widens in
\* a field of one size, and differs for draw 6 between a 12-runner field
\* (neutral) and a 14-runner field (inside).
C24_DrawAdjustmentBands ==
    FieldClassified =>
        \A i \in 1..Len(predictions) :
            ShowsDrawAdjustment(i) =>
                /\ SeenDrawAdjustment(i) \in {-3, -1, 0, 3, 5}
                /\ SeenDrawAdjustment(i) = 0
                      <=> Abs(2 * DrawOfHorse(i) - (total_runners + 1)) <= 2
                /\ SeenDrawAdjustment(i) < 0 => 2 * DrawOfHorse(i) < total_runners + 1
                /\ SeenDrawAdjustment(i) > 0 => 2 * DrawOfHorse(i) > total_runners + 1
                /\ \A j \in 1..Len(predictions) :
                      (ShowsDrawAdjustment(j) /\ DrawOfHorse(i) <= DrawOfHorse(j))
                          => SeenDrawAdjustment(i) <= SeenDrawAdjustment(j)
                /\ (DrawOfHorse(i) = 6 /\ total_runners = 12) => SeenDrawAdjustment(i) = 0
                /\ (DrawOfHorse(i) = 6 /\ total_runners = 14) => SeenDrawAdjustment(i) = -1

C24_Witness ==
    /\ FieldClassified /\ total_runners = 14
    /\ Len(predictions) = 2
    /\ ShowsDrawAdjustment(1) /\ ShowsDrawAdjustment(2)
    /\ DrawOfHorse(1) = 6 /\ SeenDrawAdjustment(1) = -1
    /\ DrawOfHorse(2) = 7 /\ SeenDrawAdjustment(2) = 0

\* the horses classified by the history-less fallback
HistoryLess(i) == race_horses_data[i].racing_history = <<>>

RatingOf(i) == safe_int_convert(race_horses_data[i].rating, 70)

\* C30: in the history-less fallback, for every field size from 6 to 14
\* and every draw, a horse rated 70 or more is never FRONT (so no FRONT
\* horse is rated 85 or more), a higher rating never gives an earlier
\* position than the unrated midpoint with the draw adjustment alone, and
\* the adjusted position lies in [1, fieldSize].
C30_HighRatingNeverFront ==
    FieldClassified =>
        \A i \in 1..Len(predictions) :
            HistoryLess(i) =>
                /\ RatingOf(i) >= 70 => predictions[i].running_style # "FRONT"
                /\ ~(predictions[i].running_style = "FRONT" /\ RatingOf(i) >= 85)
                /\ RatingOf(i) >= 70
                      => predictions[i].adjusted_position
                            >= 50 * (total_runners + 1) - 30
                /\ predictions[i].adjusted_position >= 100
                /\ predictions[i].adjusted_position <= 100 * total_runners

C30_Witness ==
    /\ FieldClassified /\ total_runners = 6
    /\ HistoryLess(1) /\ RatingOf(1) = 70 /\ DrawOfHorse(1) = 1
    /\ predictions[1].running_style = "MID"
    /\ predictions[1].adjusted_position = 320

(***************************************************************************)
(* Properties of the distribution estimator (SpecFusion).                  *)
(***************************************************************************)
\* the number of predictions of the field with the given style
CountOfStyle(style) ==
    Cardinality({i \in 1..Len(pace_predictions) :
                    pace_predictions[i].running_style = style})

\* the square of 2 n d, d the Euclidean distance between the counts of a
\* field of n scaled by 12 / n and the k-th archetype template
ScaledDistanceSquared(k) ==
    LET n == Len(pace_predictions)
        template == pace_templates[PaceTypes[k]]
        front == 24 * CountOfStyle("FRONT") - n * template.FRONT
        mid == 24 * CountOfStyle("MID") - n * template.MID
        back == 24 * CountOfStyle("BACK") - n * template.BACK
    IN  front * front + mid * mid + back * back

\* the archetype the distribution estimator selected
SelectedArchetype == CHOOSE k \in 1..5 : PaceTypes[k] = diag.traditional.pace_type

\* the least squared distance among the archetypes that were not selected
RunnerUpDistanceSquared ==
    CHOOSE v \in {ScaledDistanceSquared(k) : k \in (1..5) \ {SelectedArchetype}} :
        \A k \in (1..5) \ {SelectedArchetype} : v <= ScaledDistanceSquared(k)

\* the second-best distance is less than 0.5 above the best:
\* sqrt(D2) < sqrt(D1) + n on the squares of 2 n d
RunnerUpWithinHalf ==
    LET n == Len(pace_predictions)
        gap == RunnerUpDistanceSquared - ScaledDistanceSquared(SelectedArchetype)
               - n * n
    IN  \/ gap < 0
        \/ /\ gap < 46341
           /\ gap * gap < 4 * n * n * ScaledDistanceSquared(SelectedArchetype)

\* the confidence (in tenths of a percent) is factor * (100 - d / 6 * 100)
\* clamped at 0 and rounded to one decimal, factor in thousandths
ConfidenceIsClamped(factor) ==
    LET n == Len(pace_predictions)
        c == diag.traditional.confidence
        best == ScaledDistanceSquared(SelectedArchetype)
    IN  /\ c \in 0..1000
        /\ c > 0 => /\ SquareLeq(Max(0, 6 * n * (2 * factor - 2 * c - 1)), factor, best)
                    /\ ~SquareLeq(6 * n * (2 * factor - 2 * c + 1) + 1, factor, best)
        /\ c = 0 => SquareLeq(6 * n * (2 * factor - 1), factor, best)

\* C25: for a non-empty field, predict_pace_diagnostic scales the counts of
\* FRONT, MID and BACK by 12 / n, n the number of predictions of the field,
\* selects an archetype whose template is at the least Euclidean distance
\* from the scaled counts, and reports the confidence
\* clamp(100 - distance / 6 * 100, 0, 100), times 0.8 when the second-best
\* distance is less than 0.5 above the best.
C25_NearestScaledArchetype ==
    (Diagnosed /\ pace_predictions # <<>>) =>
        /\ \A k \in 1..5 :
               ScaledDistanceSquared(SelectedArchetype) <= ScaledDistanceSquared(k)
        /\ ConfidenceIsClamped(IF RunnerUpWithinHalf THEN 800 ELSE 1000)

\* a field of 8 (4 FRONT, 2 MID, 2 BACK: scaled 6 / 3 / 3) is nearest to
\* FAST although its unscaled counts are nearest to MODERATELY_FAST
C25_Witness ==
    /\ Diagnosed /\ Len(pace_predictions) = 8
    /\ CountOfStyle("FRONT") = 4 /\ CountOfStyle("MID") = 2
    /\ diag.traditional.pace_type = "FAST"

(***************************************************************************)
(* Properties of the surface dimension (SpecScorer).                       *)
(***************************************************************************)
\* the history records that carry a surface condition which matches the
\* surface of the race: either normalized text contains the other
SurfaceMatches ==
    LET target == NormalizeGoing(race_info.going.s)
    IN  {i \in 1..Len(racing_history) :
            LET own == NormalizeGoing(racing_history[i].condition)
            IN  /\ own # <<>>
                /\ Contains(own, target) \/ Contains(target, own)}

\* C26: for a race with a surface, the surface dimension is
\* placementRate * 0.7 + 0.3 over exactly the history records whose
\* normalized condition substring-matches the surface of the race, and the
\* neutral 0.5 when there is none; a record with an absent or empty
\* condition is never among them.
C26_SurfaceOverMatchingEntries ==
    (Called /\ result.kind = "scorecard"
        /\ race_info.going.t = "str" /\ race_info.going.s # <<>>)
        => LET placed == {i \in SurfaceMatches :
                             CleanInt(racing_history[i].position) <= 3}
               n == Cardinality(SurfaceMatches)
           IN  IF n = 0 THEN result.going = 500
               ELSE result.going
                       = Round3((Cardinality(placed) * 7 * Unit) \div (10 * n)
                                + (3 * Unit) \div 10)

\* C27: unanimity of fusion.  When the distribution estimator and the
\* pressure-index estimator select the same archetype, the fused diagnosis
\* has that archetype, whatever the two confidences.
C27_UnanimousFusion ==
    (Diagnosed /\ diag.traditional.pace_type = diag.epp.pace_type)
        => diag.pace_type = diag.epp.pace_type

\* the places of a horse in the ranking and in the error list
RankedAt(horse) ==
    {j \in 1..Len(scored_horses) : scored_horses[j].horse_name = horse.horse_name}

FailedAt(horse) ==
    {e \in 1..Len(errors) : errors[e].horse = horse.horse_name}

\* C28: after the loop every horse of the field is in exactly one of
\* scored_horses and errors, so the two lengths add up to the field size,
\* and a horse whose scoring raised, by the race-mismatch check or
\* otherwise, is not in the ranking.
C28_EveryHorseInOneList ==
    LoopDone =>
        /\ Len(scored_horses) + Len(errors) = Len(horses)
        /\ \A i \in 1..Len(horses) :
              /\ Cardinality(RankedAt(horses[i])) + Cardinality(FailedAt(horses[i])) = 1
              /\ OwnScoringFails(horses[i]) => RankedAt(horses[i]) = {}

\* C28's case: the loop is over, a horse failed and a horse was ranked
C28_Witness ==
    /\ LoopDone /\ Len(horses) = MaxField
    /\ errors # <<>> /\ scored_horses # <<>>
    /\ \E i \in 1..Len(horses) :
          OwnScoringFails(horses[i]) /\ FailedAt(horses[i]) # {}

(***************************************************************************)
(* Properties of the barrier dimension with a missing draw (SpecScorer).   *)
(***************************************************************************)
\* the field holds no draw: it is absent or its text is no number, and
\* cleaning puts the sentinel in its place
DrawMissing(value) == value.t # "int" /\ CleanInt(value) = default_invalid

\* C29: when the draw of the current race is absent or unparseable the
\* barrier dimension is the neutral 0.5 with the incomplete-draw warning,
\* and a history record whose own draw is absent is never counted among
\* the personal samples at the draw of the race.
C29_MissingDrawIsNeutral ==
    (Called /\ result.kind = "scorecard")
        => /\ DrawMissing(race_info.barrier)
                 => /\ result.barrier = 500
                    /\ result.details.barrier = "incomplete"
           /\ result.details.barrier_races
                 <= Cardinality({i \in 1..Len(racing_history) :
                                    ~DrawMissing(racing_history[i].barrier)})

====
